---- MODULE Spec2Model ----
(***************************************************************************)
(* Sound Canvas: the mapping cache (VisualMapper over StorageService), the *)
(* animation engine (VisualRenderer, in its three versions), the audio     *)
(* processor and the frame loop of App.                                    *)
(*                                                                         *)
(* Numbers.  The program computes with IEEE doubles; the model computes    *)
(* with exact rationals held as scaled integers (the unit is named at each *)
(* field).  Times are milliseconds.  Strings that the program builds and   *)
(* takes apart again (signatures, hsl colours) are sequences of character  *)
(* codes; other strings are TLA+ strings.                                  *)
(***************************************************************************)
EXTENDS Integers, Sequences, FiniteSets, TLC

(***************************************************************************)
(* Bounds of the model.                                                    *)
(***************************************************************************)
MaxUuid == 3
MaxClock == 1
MaxCalls == 2

(***************************************************************************)
(* Inputs of the mapper: raw dominant frequencies and band energies        *)
(* <<low, mid, high>>.  100 and 120 share the 50 Hz bucket 100; 41 and 45  *)
(* share the band bucket 40, once with the low band dominant and once not. *)
(***************************************************************************)
FreqInputs == {100, 120, 260}
BandInputs == {<<45, 41, 41>>, <<41, 45, 41>>}

VARIABLES
  store,          \* localStorage item 'soundVisual_mappings': [kind, items]
  mappingCache,   \* VisualMapper.mappingCache: signature -> mapping
  lastCall,       \* the last getOrCreateMapping or clearCache call, or NoCall
  clock,          \* wall clock read by new Date()
  nextUuid,       \* crypto.randomUUID(): the number of the next fresh identifier
  firstCall,      \* history: signature -> the first call [features, result] since the
                  \* mapper was built or cleared
  callCount,      \* history: signature -> calls of getOrCreateMapping since then
  saveCount,      \* history: signature -> calls of saveSoundMapping since then
  loaded,         \* history: signatures the store held when the mapper was constructed
  created         \* history: every [features, mapping] createMapping produced

mapperVars == <<store, mappingCache, lastCall, clock, nextUuid, firstCall, callCount, saveCount,
                loaded, created>>

NoCall == [kind |-> "none"]

(***************************************************************************)
(* Strings as character codes.                                             *)
(***************************************************************************)
RECURSIVE NumberToString(_)
NumberToString(n) ==
  IF n < 10 THEN <<48 + n>> ELSE NumberToString(n \div 10) \o <<48 + (n % 10)>>

IsDigit(c) == c >= 48 /\ c <= 57

\* \d+ at position i of s: the value read and the position after it (0 digits: no match)
RECURSIVE MatchDigits(_, _, _, _)
MatchDigits(s, i, acc, n) ==
  IF i <= Len(s) /\ IsDigit(s[i])
    THEN MatchDigits(s, i + 1, acc * 10 + (s[i] - 48), n + 1)
    ELSE [ok |-> n > 0, val |-> acc, next |-> i]

\* \s* at position i of s: the position after the white space
RECURSIVE SkipSpaces(_, _)
SkipSpaces(s, i) == IF i <= Len(s) /\ s[i] = 32 THEN SkipSpaces(s, i + 1) ELSE i

HslPrefix == <<104, 115, 108, 40>>

FormatHsl(hue, saturation, lightness) ==
  HslPrefix \o NumberToString(hue) \o <<44, 32>> \o NumberToString(saturation)
    \o <<37, 44, 32>> \o NumberToString(lightness) \o <<37, 41>>

\* the three regular expressions of generateComplementaryColor, on a colour that
\* starts with "hsl(" (every colour of the program is built by FormatHsl)
MatchHue(s) ==
  IF Len(s) >= 4 /\ SubSeq(s, 1, 4) = HslPrefix
    THEN MatchDigits(s, 5, 0, 0) ELSE [ok |-> FALSE, val |-> 0, next |-> 1]

MatchAfterComma(s, m) ==
  IF m.ok /\ m.next <= Len(s) /\ s[m.next] = 44
    THEN LET d == MatchDigits(s, SkipSpaces(s, m.next + 1), 0, 0)
         IN  [ok |-> d.ok /\ d.next <= Len(s) /\ s[d.next] = 37, val |-> d.val,
              next |-> d.next + 1]
    ELSE [ok |-> FALSE, val |-> 0, next |-> 1]

MatchSaturation(s) == MatchAfterComma(s, MatchHue(s))

MatchLightness(s) == MatchAfterComma(s, MatchSaturation(s))

(***************************************************************************)
(* AudioProcessor.generateSignature and the features handed to the mapper. *)
(***************************************************************************)
\* a number that is not whole is the fraction num / den, den > 0
Whole(n) == [num |-> n, den |-> 1]

\* Math.floor(x / width) * width
Bucket_roundsUp(x, width) == ((x.num + x.den * width - 1) \div (x.den * width)) * width

Bucket(x, width) == (x.num \div (x.den * width)) * width

generateSignature(freq, low, mid, high) ==
  NumberToString(Bucket(freq, 50)) \o <<45>> \o NumberToString(Bucket(low, 20))
    \o <<45>> \o NumberToString(Bucket(mid, 20)) \o <<45>>
    \o NumberToString(Bucket(high, 20))

Features(freq, low, mid, high) ==
  [frequency |-> freq, lowFreq |-> low, midFreq |-> mid, highFreq |-> high,
   signature |-> generateSignature(Whole(freq), Whole(low), Whole(mid), Whole(high))]

FeatureInputs ==
  { Features(fr, b[1], b[2], b[3]) : fr \in FreqInputs, b \in BandInputs }

Signatures == { f.signature : f \in FeatureInputs }

(***************************************************************************)
(* VisualMapper: the seed, the generator and the draws.                    *)
(***************************************************************************)
VISUAL_TYPES == <<"geometric", "particle", "brush", "organic">>

SHAPE_TYPES ==
  [geometric |-> <<"circle", "square", "triangle", "hexagon", "star", "diamond">>,
   particle  |-> <<"dots", "sparkles", "burst", "trail", "spiral">>,
   brush     |-> <<"soft", "textured", "splatter", "calligraphy", "spray">>,
   organic   |-> <<"blob", "wave", "tentacle", "fractal", "flow">>]

ANIMATION_STYLES == <<"pulse", "rotate", "expand", "fade", "oscillate", "drift">>

LcgModulus == 233280

\* A 32-bit word is kept as its two 16-bit halves <<hi, lo>>, read unsigned; as an
\* int32 it is negative when hi >= 32768.
\* hash << 5
ShiftLeft5(h) ==
  LET lo == h[2] * 32
  IN  <<(h[1] * 32 + (lo \div 65536)) % 65536, lo % 65536>>

\* a - b, wrapped to 32 bits
WordMinus(a, b) ==
  LET borrow == IF a[2] < b[2] THEN 1 ELSE 0
  IN  <<(a[1] + 65536 - b[1] - borrow) % 65536, (a[2] + 65536 - b[2]) % 65536>>

\* hash = ((hash << 5) - hash) + char; hash = hash & hash
HashStep(h, char) ==
  LET d == WordMinus(ShiftLeft5(h), h)
      lo == d[2] + char
  IN  <<(d[1] + (lo \div 65536)) % 65536, lo % 65536>>

RECURSIVE HashFrom(_, _, _)
\* the loop over the characters; h is looked at in every round so that it is computed
\* round by round
HashFrom(s, i, h) ==
  IF i > Len(s) \/ h[1] < 0 THEN h ELSE HashFrom(s, i + 1, HashStep(h, s[i]))

hashSignature_signed(signature) == HashFrom(signature, 1, <<0, 0>>)

\* Math.abs of the int32 the loop leaves: the seed, a non-negative integer up to 2^31,
\* as <<hi, lo>>
hashSignature(signature) ==
  LET h == HashFrom(signature, 1, <<0, 0>>)
  IN  IF h[1] < 32768 THEN h
      ELSE <<65535 - h[1] + (IF h[2] = 0 THEN 1 ELSE 0), (65536 - h[2]) % 65536>>

\* seed % 233280: the generator reads the seed only through
\* (seed*9301 + 49297) % 233280
SeedResidue(seed) ==
  LET high == (((seed[1] * 256) % LcgModulus) * 256) % LcgModulus
  IN  (high + seed[2]) % LcgModulus

\* value = (value * 9301 + 49297) % 233280, with 9301 = 93*100 + 1
rngNext(value) ==
  LET r == value % LcgModulus
  IN  (((r * 93) % LcgModulus) * 100 + r + 49297) % LcgModulus

DrawIndex_roundsUp(value, n) == (value * n + LcgModulus - 1) \div LcgModulus

\* Math.floor(rng() * n) for the value the generator has just produced
DrawIndex(value, n) == (value * n) \div LcgModulus

\* list[index] of a JavaScript array: undefined outside the array
ElementAt(list, index) == IF index + 1 \in DOMAIN list THEN list[index + 1] ELSE "undefined"

\* the value of the k-th draw of the generator built from seed
RECURSIVE createSeededRandom(_, _)
createSeededRandom(seed, k) ==
  IF k = 0 THEN SeedResidue(seed) ELSE rngNext(createSeededRandom(seed, k - 1))

getFrequencyRange(freq) ==
  IF freq < 250 THEN "sub-bass"
  ELSE IF freq < 500 THEN "bass"
  ELSE IF freq < 2000 THEN "midrange"
  ELSE IF freq < 6000 THEN "upper-mid"
  ELSE "treble"

\* generateColor draws three times: the values are those of draws k, k+1, k+2
generateColor_lightnessSkipsDraw(seed, k, f) ==
  LET hue == DrawIndex(createSeededRandom(seed, k), 360)
      saturation == 60 + DrawIndex(createSeededRandom(seed, k + 1), 40)
      third == createSeededRandom(seed, k + 2)
      dominantLow == f.lowFreq > f.midFreq /\ f.lowFreq > f.highFreq
      dominantHigh == f.highFreq > f.lowFreq /\ f.highFreq > f.midFreq
  IN  [color |-> FormatHsl(hue, saturation,
                   IF dominantLow THEN 35 + DrawIndex(third, 25)
                   ELSE IF dominantHigh THEN 60 + DrawIndex(third, 25)
                   ELSE 50),
       draws |-> IF dominantLow \/ dominantHigh THEN 3 ELSE 2]

generateColor(seed, k, f) ==
  LET hue == DrawIndex(createSeededRandom(seed, k), 360)
      saturation == 60 + DrawIndex(createSeededRandom(seed, k + 1), 40)
      third == createSeededRandom(seed, k + 2)
      lightness ==
        IF f.lowFreq > f.midFreq /\ f.lowFreq > f.highFreq
          THEN 35 + DrawIndex(third, 25)
        ELSE IF f.highFreq > f.lowFreq /\ f.highFreq > f.midFreq
          THEN 60 + DrawIndex(third, 25)
        ELSE 45 + DrawIndex(third, 20)
  IN  [color |-> FormatHsl(hue, saturation, lightness), draws |-> 3]

\* one draw, the value of draw k
generateComplementaryColor(primaryColor, seed, k) ==
  LET hueMatch == MatchHue(primaryColor)
      hueOffset == 150 + DrawIndex(createSeededRandom(seed, k), 60)
      satMatch == MatchSaturation(primaryColor)
      lightMatch == MatchLightness(primaryColor)
  IN  IF ~hueMatch.ok
        THEN [color |-> primaryColor, draws |-> 0]
        ELSE [color |-> FormatHsl((hueMatch.val + hueOffset) % 360,
                                  IF satMatch.ok THEN satMatch.val ELSE 70,
                                  IF lightMatch.ok THEN lightMatch.val ELSE 50),
              draws |-> 1]

\* sizeBase in units of 1/583200 px: 10 + min(freq/2000, 1)*40 + rng()*20
\* opacityBase in units of 1/2332800: 0.5 + rng()*0.3
createMapping(f, uuid, nowMs) ==
  LET seed == hashSignature(f.signature)
      visualType == ElementAt(VISUAL_TYPES, DrawIndex(createSeededRandom(seed, 1), 4))
      shapes == IF visualType \in DOMAIN SHAPE_TYPES THEN SHAPE_TYPES[visualType] ELSE <<>>
      shapeType == ElementAt(shapes, DrawIndex(createSeededRandom(seed, 2), Len(shapes)))
      animationStyle ==
        ElementAt(ANIMATION_STYLES,
                  DrawIndex(createSeededRandom(seed, 3), Len(ANIMATION_STYLES)))
      primary == generateColor(seed, 4, f)
      k2 == 4 + primary.draws
      secondary == generateComplementaryColor(primary.color, seed, k2)
      k3 == k2 + secondary.draws
      frequencyNorm2000 == IF f.frequency < 2000 THEN f.frequency ELSE 2000
  IN  [id |-> uuid,
       soundSignature |-> f.signature,
       frequencyRange |-> getFrequencyRange(f.frequency),
       visualType |-> visualType,
       colorPrimary |-> primary.color,
       colorSecondary |-> secondary.color,
       shapeType |-> shapeType,
       sizeBase |-> 5832000 + frequencyNorm2000 * 11664 + createSeededRandom(seed, k3) * 50,
       opacityBase |-> 1166400 + createSeededRandom(seed, k3 + 1) * 3,
       animationStyle |-> animationStyle,
       createdAt |-> nowMs]

(***************************************************************************)
(* StorageService over localStorage.  The item is absent or holds the JSON *)
(* text of an array of mappings; JSON.stringify followed by JSON.parse     *)
(* gives back a plain record of strings and finite numbers field by field. *)
(***************************************************************************)
AbsentItem == [kind |-> "absent", items |-> <<>>]

getAllSoundMappings(item) == IF item.kind = "absent" THEN <<>> ELSE item.items

FindIndex(mappings, signature) ==
  LET hits == { i \in 1..Len(mappings) : mappings[i].soundSignature = signature }
  IN  IF hits = {} THEN 0 ELSE CHOOSE i \in hits : \A j \in hits : i <= j

saveSoundMapping(item, mapping) ==
  LET mappings == getAllSoundMappings(item)
      existingIndex == FindIndex(mappings, mapping.soundSignature)
  IN  [kind |-> "json",
       items |-> IF existingIndex >= 1
                   THEN [mappings EXCEPT ![existingIndex] = mapping]
                   ELSE Append(mappings, mapping)]

clearAllMappings_keepsItem(item) == item

clearAllMappings(item) == AbsentItem

(***************************************************************************)
(* VisualMapper.                                                           *)
(***************************************************************************)
RECURSIVE CacheFromList(_, _, _)
CacheFromList(mappings, i, cache) ==
  IF i > Len(mappings) THEN cache
  ELSE CacheFromList(mappings, i + 1,
         [s \in DOMAIN cache \cup {mappings[i].soundSignature} |->
            IF s = mappings[i].soundSignature THEN mappings[i] ELSE cache[s]])

EmptyCache == [s \in {} |-> 0]

loadExistingMappings_loadsNothing(item) == EmptyCache

loadExistingMappings(item) == CacheFromList(getAllSoundMappings(item), 1, EmptyCache)

\* the signatures the item holds a record for
StoredSignatures(item) ==
  { getAllSoundMappings(item)[i].soundSignature : i \in 1..Len(getAllSoundMappings(item)) }

CacheHas_never(cache, signature) == FALSE

CacheHas(cache, signature) == signature \in DOMAIN cache

CacheSet_dropped(cache, signature, mapping) == cache

CacheSet_keyedByColor(cache, signature, mapping) ==
  [s \in DOMAIN cache \cup {mapping.colorPrimary} |->
     IF s = mapping.colorPrimary THEN mapping ELSE cache[s]]

CacheSet(cache, signature, mapping) ==
  [s \in DOMAIN cache \cup {signature} |-> IF s = signature THEN mapping ELSE cache[s]]

ZeroCounts == [s \in Signatures |-> 0]

NoFirst == [s \in {} |-> 0]

InitMapper ==
  /\ store = AbsentItem
  /\ mappingCache = loadExistingMappings(AbsentItem)
  /\ lastCall = NoCall
  /\ clock = 0
  /\ nextUuid = 1
  /\ firstCall = NoFirst
  /\ callCount = ZeroCounts
  /\ saveCount = ZeroCounts
  /\ loaded = {}
  /\ created = {}

\* new VisualMapper(): a later session over the same localStorage
NewMapper ==
  /\ mappingCache' = loadExistingMappings(store)
  /\ loaded' = StoredSignatures(store)
  /\ lastCall' = NoCall
  /\ firstCall' = NoFirst
  /\ callCount' = ZeroCounts
  /\ saveCount' = ZeroCounts
  /\ UNCHANGED <<store, clock, nextUuid, created>>

getOrCreateMapping(f) ==
  /\ callCount[f.signature] < MaxCalls
  /\ IF CacheHas(mappingCache, f.signature)
       THEN /\ lastCall' = [kind |-> "call", features |-> f,
                            result |-> mappingCache[f.signature],
                            afterClear |-> FALSE, seenBefore |-> FALSE]
            /\ UNCHANGED <<mappingCache, store, saveCount, nextUuid>>
       ELSE /\ nextUuid <= MaxUuid
            /\ LET newMapping == createMapping(f, nextUuid, clock)
                 IN  /\ nextUuid' = nextUuid + 1
                     /\ mappingCache' = CacheSet(mappingCache, f.signature, newMapping)
                     /\ store' = saveSoundMapping(store, newMapping)
                     /\ saveCount' = [saveCount EXCEPT ![f.signature] = @ + 1]
                     /\ lastCall' = [kind |-> "call", features |-> f, result |-> newMapping,
                                      afterClear |-> lastCall.kind = "cleared",
                                      seenBefore |-> /\ lastCall.kind = "cleared"
                                                     /\ f.signature \in lastCall.seen]
  /\ callCount' = [callCount EXCEPT ![f.signature] = @ + 1]
  /\ firstCall' = IF f.signature \in DOMAIN firstCall THEN firstCall
                  ELSE [s \in DOMAIN firstCall \cup {f.signature} |->
                          IF s = f.signature THEN lastCall' ELSE firstCall[s]]
  /\ UNCHANGED <<clock, loaded, created>>

GetOrCreate == \E f \in FeatureInputs : getOrCreateMapping(f)

\* lastCall records the clear and, as history, the signatures cached before it
clearCache ==
  /\ mappingCache' = EmptyCache
  /\ store' = clearAllMappings(store)
  /\ lastCall' = [kind |-> "cleared",
                  seen |-> DOMAIN mappingCache \cup
                           (IF lastCall.kind = "cleared" THEN lastCall.seen ELSE {})]
  /\ firstCall' = NoFirst
  /\ callCount' = ZeroCounts
  /\ saveCount' = ZeroCounts
  /\ loaded' = {}
  /\ UNCHANGED <<clock, nextUuid, created>>

AdvanceClock ==
  /\ clock < MaxClock
  /\ clock' = clock + 1
  /\ UNCHANGED <<store, mappingCache, lastCall, nextUuid, firstCall, callCount, saveCount,
                 loaded, created>>

(***************************************************************************)
(* createMapping on its own: what getOrCreateMapping generates on a miss,  *)
(* as in a mapper that starts from an empty cache and store, for each      *)
(* input; every generated mapping is kept with the features it came from.  *)
(***************************************************************************)
GenerateMapping(f) ==
  /\ nextUuid <= MaxUuid
  /\ created' = created \cup {[features |-> f, mapping |-> createMapping(f, nextUuid, clock)]}
  /\ nextUuid' = nextUuid + 1
  /\ UNCHANGED <<store, mappingCache, lastCall, clock, firstCall, callCount, saveCount,
                 loaded>>

Generate == \E f \in FeatureInputs : GenerateMapping(f)

(***************************************************************************)
(* VisualRenderer.  Three versions of the class are in the repository: the *)
(* fade-aware one ("fade"), the one without fade options ("ts") and the    *)
(* legacy one that draws at once and keeps only particles ("legacy").      *)
(*                                                                         *)
(* amplitude is in units of 1/1000, sensitivity and globalOpacity in units *)
(* of 1/10.  A value x*num/den is held as [ip, fr]: ip + fr/den.  Sizes    *)
(* are in units of 1/583200 px, opacities in units of 1/23328000.  The     *)
(* random position, velocity, rotation and scale speed of an entity never  *)
(* reach a condition of the code; the model keeps the time of the tick    *)
(* that last moved the entity (advancedAt) and the argument of its easing  *)
(* function (ease).  The opacity an entity was last drawn with is          *)
(* base * num/den, times the sinusoid in [0.6, 1] when shimmer is set.     *)
(***************************************************************************)
VARIABLES
  version,        \* which version of VisualRenderer this renderer is
  now,            \* performance.now() as render read it last
  lastFrameTime,  \* VisualRenderer.lastFrameTime
  animationTime,  \* VisualRenderer.animationTime, in ms
  currentOptions, \* VisualRenderer.currentOptions
  animatedShapes, \* VisualRenderer.animatedShapes
  particles,      \* VisualRenderer.particles
  nextEid,        \* history: number of the next entity spawned
  ticks,          \* history: render calls so far
  lastRender      \* history: the last render call and what it spawned and removed

renderVars == <<version, now, lastFrameTime, animationTime, currentOptions, animatedShapes,
                particles, nextEid, ticks, lastRender>>

MaxTicks == 4
MaxShapes == 2
MaxParticles == 8

Versions == {"fade", "ts", "legacy"}
Deltas == {1500}
ClockSkews == {0, 1}
Durations == {1000, 2500}
Amplitudes == {0, 5, 100}
Sensitivities == {10}
GlobalOpacities == {7}
FadeDurations == {1000, 3000}

GeometricFeatures == Features(100, 45, 41, 41)
ParticleFeatures == Features(260, 45, 41, 41)

\* the mappings the mapper generates for two of its inputs: a geometric and a particle one
RenderMappings == {createMapping(GeometricFeatures, 1, 0), createMapping(ParticleFeatures, 2, 0)}

\* the options a caller passes: without fade the fade duration is not read
RenderOptions ==
  { o \in [globalOpacity : GlobalOpacities, sensitivity : Sensitivities,
           fadeEnabled : BOOLEAN, fadeDuration : FadeDurations] :
      o.fadeEnabled \/ o.fadeDuration = 3000 }

DefaultOptions ==
  [globalOpacity |-> 7, sensitivity |-> 10, fadeEnabled |-> FALSE, fadeDuration |-> 3000]

ScaleBy(x, num, den) ==
  LET q == x \div den
      r == x % den
  IN  [ip |-> q * num + ((r * num) \div den), fr |-> (r * num) % den]

FadeOutMs == 1500
FortyPx == 23328000
OpacityOne == 23328000

NoRender == [kind |-> "none"]

randomDuration == Durations

\* the randomDuration() draws of one burst of n particles: all long, or the first
\* short and the others long
Burst(n, k) == [i \in 1..n |-> IF i <= k THEN 1000 ELSE 2500]

BurstDurations(n) == { Burst(n, k) : k \in {0, 1} }

\* what one render call draws and reads beside its arguments: the randomDuration() of
\* a shape, the clock's advance between render's reading and createAnimatedShape's,
\* and how many particles of a burst draw the short duration
Draws == [duration : randomDuration, skew : ClockSkews, short : {0, 1}]

\* the entity as createAnimatedShape pushes it
createAnimatedShape_alwaysGeometric(type, mapping, size, opacity, eid, startTime, duration, initialScale) ==
  [eid |-> eid, type |-> "geometric", mapping |-> mapping, baseSize |-> size,
   baseOpacity |-> opacity, startTime |-> startTime, duration |-> duration,
   ease |-> [kind |-> "initial", scale10 |-> initialScale], advancedAt |-> -1,
   drawn |-> [kind |-> "never"], geometry |-> <<>>]

createAnimatedShape(type, mapping, size, opacity, eid, startTime, duration, initialScale) ==
  [eid |-> eid, type |-> type, mapping |-> mapping, baseSize |-> size,
   baseOpacity |-> opacity, startTime |-> startTime, duration |-> duration,
   ease |-> [kind |-> "initial", scale10 |-> initialScale], advancedAt |-> -1,
   drawn |-> [kind |-> "never"], geometry |-> <<>>]

particleCount_alwaysFive(amplitudeScaled) == 5

particleCount(amplitudeScaled) == (50000 + amplitudeScaled * 15) \div 10000

\* the particles createAnimatedParticles pushes: durations[i] is the i-th randomDuration()
createAnimatedParticles(mapping, size, amplitudeScaled, startTime, firstEid, durations) ==
  [i \in 1..particleCount(amplitudeScaled) |->
     [eid |-> firstEid + i - 1,
      size |-> [of |-> size, num |-> 1, den |-> 5],
      color |-> IF (i - 1) % 2 = 0 THEN mapping.colorPrimary ELSE mapping.colorSecondary,
      life |-> [num |-> 1, den |-> 1],
      startTime |-> startTime, duration |-> durations[i],
      ease |-> [kind |-> "initial", scale10 |-> 5], advancedAt |-> -1,
      drawn |-> [kind |-> "never"]]]

Min(a, b) == IF a < b THEN a ELSE b

Removal(kind, e, elapsed) ==
  [kind |-> kind, eid |-> e.eid, elapsed |-> elapsed, duration |-> e.duration]

(***************************************************************************)
(* The update pass of the fade-aware version.  Each operator gives what    *)
(* one iteration of the loop leaves of the entity: [keep, entity].         *)
(***************************************************************************)
FadeShapeRemoved_atLifetime(shape, elapsed, options) == elapsed > shape.duration

FadeShapeRemoved(shape, elapsed, options) == elapsed > options.fadeDuration + FadeOutMs

FadeOpacity_fromSpawn(elapsed, fadeStartTime) ==
  [kind |-> "drawn", num |-> (fadeStartTime + FadeOutMs) - elapsed,
   den |-> fadeStartTime + FadeOutMs, shimmer |-> FALSE]

FadeOpacity(elapsed, fadeStartTime) ==
  IF elapsed > fadeStartTime
    THEN [kind |-> "drawn", num |-> FadeOutMs - (elapsed - fadeStartTime), den |-> FadeOutMs,
          shimmer |-> FALSE]
    ELSE [kind |-> "drawn", num |-> 1, den |-> 1, shimmer |-> FALSE]

updateShapeFade(shape, t, options) ==
  LET elapsed == t - shape.startTime
  IN  IF options.fadeEnabled
        THEN IF FadeShapeRemoved(shape, elapsed, options)
               THEN [keep |-> FALSE, entity |-> shape]
               ELSE [keep |-> TRUE,
                     entity |-> [shape EXCEPT
                       !.ease = [kind |-> "easeInOutCubic", num |-> Min(elapsed, 1000),
                                 den |-> 1000],
                       !.advancedAt = t,
                       !.drawn = FadeOpacity(elapsed, options.fadeDuration)]]
        ELSE IF elapsed >= shape.duration
               THEN [keep |-> TRUE,
                     entity |-> [shape EXCEPT
                       !.ease = [kind |-> "done", num |-> 1, den |-> 1],
                       !.drawn = [kind |-> "drawn", num |-> 1, den |-> 1,
                                  shimmer |-> FALSE]]]
               ELSE [keep |-> TRUE,
                     entity |-> [shape EXCEPT
                       !.ease = [kind |-> "easeInOutCubic", num |-> elapsed,
                                 den |-> shape.duration],
                       !.advancedAt = t,
                       !.drawn = [kind |-> "drawn", num |-> 10 * shape.duration - 3 * elapsed,
                                  den |-> 10 * shape.duration, shimmer |-> TRUE]]]

FadeParticleRemoved_atLifetime(p, elapsed, options) == elapsed > p.duration

FadeParticleRemoved(p, elapsed, options) == elapsed > options.fadeDuration + FadeOutMs

updateParticleFade(p, t, options) ==
  LET elapsed == t - p.startTime
  IN  IF options.fadeEnabled
        THEN IF FadeParticleRemoved(p, elapsed, options)
               THEN [keep |-> FALSE, entity |-> p]
               ELSE [keep |-> TRUE,
                     entity |-> [p EXCEPT
                       !.ease = [kind |-> "easeOutQuad", num |-> Min(elapsed, 1000),
                                 den |-> 1000],
                       !.advancedAt = t,
                       !.drawn = FadeOpacity(elapsed, options.fadeDuration)]]
        ELSE IF elapsed >= p.duration
               THEN [keep |-> TRUE,
                     entity |-> [p EXCEPT
                       !.ease = [kind |-> "done", num |-> 1, den |-> 1],
                       !.drawn = [kind |-> "drawn", num |-> 1, den |-> 1,
                                  shimmer |-> FALSE]]]
               ELSE [keep |-> TRUE,
                     entity |-> [p EXCEPT
                       !.ease = [kind |-> "easeOutQuad", num |-> elapsed, den |-> p.duration],
                       !.advancedAt = t,
                       !.life = [num |-> p.duration - elapsed, den |-> p.duration],
                       !.drawn = [kind |-> "drawn", num |-> p.duration - elapsed,
                                  den |-> p.duration, shimmer |-> FALSE]]]

(***************************************************************************)
(* The update pass of the version without fade options.                    *)
(***************************************************************************)
updateShapeTs(shape, t) ==
  LET elapsed == t - shape.startTime
  IN  IF elapsed >= shape.duration
        THEN [keep |-> FALSE, entity |-> shape]
        ELSE [keep |-> TRUE,
              entity |-> [shape EXCEPT
                !.ease = [kind |-> "easeInOutCubic", num |-> elapsed, den |-> shape.duration],
                !.advancedAt = t,
                !.drawn = [kind |-> "drawn", num |-> 10 * shape.duration - 3 * elapsed,
                           den |-> 10 * shape.duration, shimmer |-> TRUE]]]

updateParticleTs(p, t) ==
  LET elapsed == t - p.startTime
  IN  IF elapsed >= p.duration
        THEN [keep |-> FALSE, entity |-> p]
        ELSE [keep |-> TRUE,
              entity |-> [p EXCEPT
                !.ease = [kind |-> "easeOutQuad", num |-> elapsed, den |-> p.duration],
                !.advancedAt = t,
                !.life = [num |-> p.duration - elapsed, den |-> p.duration],
                !.drawn = [kind |-> "drawn", num |-> p.duration - elapsed,
                           den |-> p.duration, shimmer |-> FALSE]]]

(***************************************************************************)
(* The legacy version: life goes down by decay (1/50) on every update.     *)
(***************************************************************************)
updateParticleLegacy(p, t) ==
  LET life == p.life.num - 1
  IN  IF life <= 0
        THEN [keep |-> FALSE, entity |-> p]
        ELSE [keep |-> TRUE,
              entity |-> [p EXCEPT !.life = [num |-> life, den |-> 50], !.advancedAt = t,
                                   !.drawn = [kind |-> "drawn", num |-> life, den |-> 50,
                                              shimmer |-> FALSE]]]

renderParticle(mapping, size, amplitudeScaled, firstEid) ==
  [i \in 1..particleCount(amplitudeScaled) |->
     [eid |-> firstEid + i - 1,
      size |-> [of |-> size, num |-> 1, den |-> 5],
      color |-> IF (i - 1) % 2 = 0 THEN mapping.colorPrimary ELSE mapping.colorSecondary,
      life |-> [num |-> 50, den |-> 50],
      startTime |-> 0, duration |-> 0,
      ease |-> [kind |-> "none"], advancedAt |-> -1,
      drawn |-> [kind |-> "never"]]]

(***************************************************************************)
(* The loops over the live lists (back to front, splicing the removed      *)
(* entity out): the kept entities stay in their order.                     *)
(***************************************************************************)
\* the path calls each draw function makes between beginPath and fill or stroke; a
\* switch without a default makes none for a shapeType it has no case for
drawGeometricShape(shapeType) ==
  CASE shapeType = "circle" -> <<"arc">>
    [] shapeType = "square" -> <<"rect">>
    [] shapeType = "triangle" -> <<"drawPolygon">>
    [] shapeType = "hexagon" -> <<"drawPolygon">>
    [] shapeType = "star" -> <<"drawStar">>
    [] shapeType = "diamond" -> <<"drawPolygon">>
    [] OTHER -> <<>>

drawBrushShape(shapeType) ==
  CASE shapeType = "soft" -> <<"arc">>
    [] shapeType = "textured" -> [i \in 1..10 |-> "arc"]
    [] shapeType = "splatter" -> [i \in 1..8 |-> "arc"]
    [] shapeType = "calligraphy" -> <<"moveTo", "quadraticCurveTo">>
    [] shapeType = "spray" -> [i \in 1..30 |-> "arc"]
    [] OTHER -> <<>>

drawOrganicShape(shapeType) ==
  CASE shapeType = "blob" -> <<"drawBlob">>
    [] shapeType = "wave" -> <<"drawWave">>
    [] shapeType = "tentacle" -> <<"drawTentacle">>
    [] shapeType = "fractal" -> <<"drawFractal">>
    [] shapeType = "flow" -> <<"drawFlow">>
    [] OTHER -> <<>>

renderShape_defaultsToCircle(shape) ==
  CASE shape.type = "geometric" ->
         IF drawGeometricShape(shape.mapping.shapeType) = <<>> THEN <<"arc">>
         ELSE drawGeometricShape(shape.mapping.shapeType)
    [] shape.type = "brush" -> drawBrushShape(shape.mapping.shapeType)
    [] shape.type = "organic" -> drawOrganicShape(shape.mapping.shapeType)
    [] OTHER -> <<>>

renderShape(shape) ==
  CASE shape.type = "geometric" -> drawGeometricShape(shape.mapping.shapeType)
    [] shape.type = "brush" -> drawBrushShape(shape.mapping.shapeType)
    [] shape.type = "organic" -> drawOrganicShape(shape.mapping.shapeType)
    [] OTHER -> <<>>

\* every shape the update pass keeps goes through renderShape
Drawn(r) == IF r.keep THEN [r EXCEPT !.entity.geometry = renderShape(r.entity)] ELSE r

Kept(results) ==
  LET keptOnes == SelectSeq(results, LAMBDA r : r.keep)
  IN  [i \in 1..Len(keptOnes) |-> keptOnes[i].entity]

Dropped(kind, results, t) ==
  { Removal(kind, results[i].entity, t - results[i].entity.startTime) :
      i \in { j \in 1..Len(results) : ~results[j].keep } }

updateAnimatedShapes(shapes, t, options) ==
  IF version = "fade"
    THEN [i \in 1..Len(shapes) |-> Drawn(updateShapeFade(shapes[i], t, options))]
    ELSE [i \in 1..Len(shapes) |-> Drawn(updateShapeTs(shapes[i], t))]

updateParticles(ps, t, options) ==
  IF version = "fade"
    THEN [i \in 1..Len(ps) |-> updateParticleFade(ps[i], t, options)]
  ELSE IF version = "ts"
    THEN [i \in 1..Len(ps) |-> updateParticleTs(ps[i], t)]
  ELSE [i \in 1..Len(ps) |-> updateParticleLegacy(ps[i], t)]

\* updateAnimatedElements(now) after the spawn: the new live lists and the history
UpdateAndRecord(shapes, ps, t, options, call) ==
  LET s == updateAnimatedShapes(shapes, t, options)
      p == updateParticles(ps, t, options)
  IN  /\ animatedShapes' = Kept(s)
      /\ particles' = Kept(p)
      /\ lastRender' = [call EXCEPT !.updated = TRUE,
                                    !.removed = Dropped("shape", s, t)
                                                  \cup Dropped("particle", p, t)]

Call(mapping, amplitude, options, t, spawnedShapes, spawnedParticles) ==
  [kind |-> "render", mapping |-> mapping, amplitude |-> amplitude, options |-> options,
   now |-> t,
   spawnedShapes |-> spawnedShapes, spawnedParticles |-> spawnedParticles,
   updated |-> FALSE, removed |-> {}]

InitRenderer(v) ==
  /\ version = v
  /\ now = 0
  /\ lastFrameTime = 0
  /\ animationTime = 0
  /\ currentOptions = DefaultOptions
  /\ animatedShapes = <<>>
  /\ particles = <<>>
  /\ nextEid = 1
  /\ ticks = 0
  /\ lastRender = NoRender

InitRender == \E v \in Versions : InitRenderer(v)

\* amplitudeScaled < 0.02, amplitudeScaled in units of 1/10000
SpawnThresholdFade(amplitudeScaled) == amplitudeScaled < 200

\* the fade-aware render(mapping, audioFeatures, options), called delta ms after the
\* last clock reading, with the draws it makes
renderFadeDrawn(mapping, amplitude, options, delta, draws) ==
  LET t == now + delta
      amplitudeScaled == amplitude * options.sensitivity
      product == ScaleBy(mapping.sizeBase, 10000 + 3 * amplitudeScaled, 10000)
      size == IF product.ip >= FortyPx THEN product ELSE [ip |-> FortyPx, fr |-> 0]
      opacity == [ip |-> 18662400, fr |-> 0]
  IN  /\ version = "fade"
      /\ ticks < MaxTicks
      /\ ticks' = ticks + 1
      /\ currentOptions' = options
      /\ now' = t
      /\ lastFrameTime' = t
      /\ animationTime' = animationTime + (t - lastFrameTime)
      /\ IF SpawnThresholdFade(amplitudeScaled)
           THEN /\ nextEid' = nextEid
                /\ UpdateAndRecord(animatedShapes, particles, t, options,
                                   Call(mapping, amplitude, options, t, 0, 0))
         ELSE IF mapping.visualType = "particle"
           THEN /\ Len(particles) + particleCount(amplitudeScaled) <= MaxParticles
                /\ nextEid' = nextEid + particleCount(amplitudeScaled)
                /\ LET durations == Burst(particleCount(amplitudeScaled), draws.short)
                   IN
                     UpdateAndRecord(animatedShapes,
                       particles \o createAnimatedParticles(mapping, size, amplitudeScaled, t,
                                                            nextEid, durations),
                       t, options,
                       Call(mapping, amplitude, options, t, 0,
                            particleCount(amplitudeScaled)))
         ELSE IF mapping.visualType \in {"geometric", "brush", "organic"}
           THEN /\ Len(animatedShapes) < MaxShapes
                /\ nextEid' = nextEid + 1
                /\ LET duration == draws.duration
                       skew == draws.skew
                   IN
                     UpdateAndRecord(
                       Append(animatedShapes,
                              createAnimatedShape(mapping.visualType, mapping, size, opacity,
                                                  nextEid, t + skew, duration, 12)),
                       particles, t, options, Call(mapping, amplitude, options, t, 1, 0))
         ELSE /\ nextEid' = nextEid
              /\ UpdateAndRecord(animatedShapes, particles, t, options,
                                 Call(mapping, amplitude, options, t, 0, 0))
      /\ UNCHANGED version

\* the draws a call with this mapping can make: a burst draws no shape duration and
\* reads no second clock, a shape draws no burst
DrawsOf(mapping) ==
  IF mapping.visualType = "particle"
    THEN { d \in Draws : d.duration = 1000 /\ d.skew = 0 }
    ELSE { d \in Draws : d.short = 0 }

renderFade(mapping, amplitude, options, delta) ==
  \E draws \in DrawsOf(mapping) : renderFadeDrawn(mapping, amplitude, options, delta, draws)

RenderFade ==
  \E mapping \in RenderMappings, amplitude \in Amplitudes, options \in RenderOptions,
     delta \in Deltas :
    renderFade(mapping, amplitude, options, delta)

\* amplitudeScaled < 0.01, amplitudeScaled = amplitude * sensitivity * 2 in units of 1/10000
SpawnThresholdTs(amplitudeScaled) == amplitudeScaled < 100

ClampOpacity(x) ==
  IF x.ip < 4665600 THEN [ip |-> 4665600, fr |-> 0]
  ELSE IF x.ip >= OpacityOne THEN [ip |-> OpacityOne, fr |-> 0]
  ELSE x

\* render(mapping, audioFeatures, options) of the version without fade options
renderTs(mapping, amplitude, options, delta) ==
  LET t == now + delta
      amplitudeScaled == amplitude * options.sensitivity * 2
      size == ScaleBy(mapping.sizeBase, 10000 + 3 * amplitudeScaled, 10000)
      opacity == ClampOpacity(ScaleBy(mapping.opacityBase * options.globalOpacity,
                                      6000 + 3 * amplitudeScaled, 20000))
  IN  /\ version = "ts"
      /\ ticks < MaxTicks
      /\ ticks' = ticks + 1
      /\ now' = t
      /\ lastFrameTime' = t
      /\ animationTime' = animationTime + (t - lastFrameTime)
      /\ IF SpawnThresholdTs(amplitudeScaled)
           THEN /\ nextEid' = nextEid
                /\ UpdateAndRecord(animatedShapes, particles, t, options,
                                   Call(mapping, amplitude, options, t, 0, 0))
         ELSE IF mapping.visualType = "particle"
           THEN /\ Len(particles) + particleCount(amplitudeScaled) <= MaxParticles
                /\ nextEid' = nextEid + particleCount(amplitudeScaled)
                /\ \E durations \in BurstDurations(particleCount(amplitudeScaled)) :
                     UpdateAndRecord(animatedShapes,
                       particles \o createAnimatedParticles(mapping, size, amplitudeScaled, t,
                                                            nextEid, durations),
                       t, options,
                       Call(mapping, amplitude, options, t, 0,
                            particleCount(amplitudeScaled)))
         ELSE IF mapping.visualType \in {"geometric", "brush", "organic"}
           THEN /\ Len(animatedShapes) < MaxShapes
                /\ nextEid' = nextEid + 1
                /\ \E duration \in randomDuration, skew \in ClockSkews :
                     UpdateAndRecord(
                       Append(animatedShapes,
                              createAnimatedShape(mapping.visualType, mapping, size, opacity,
                                                  nextEid, t + skew, duration, 8)),
                       particles, t, options, Call(mapping, amplitude, options, t, 1, 0))
         ELSE /\ nextEid' = nextEid
              /\ UpdateAndRecord(animatedShapes, particles, t, options,
                                 Call(mapping, amplitude, options, t, 0, 0))
      /\ UNCHANGED <<version, currentOptions>>

OptionsWithoutFade == { o \in RenderOptions : ~o.fadeEnabled /\ o.fadeDuration = 3000 }

RenderTs ==
  \E mapping \in RenderMappings, amplitude \in Amplitudes, options \in OptionsWithoutFade,
     delta \in Deltas :
    renderTs(mapping, amplitude, options, delta)

\* the legacy render(mapping, audioFeatures, options): it reads no clock, draws the
\* geometric, brush and organic families at once and keeps only particles
renderLegacy(mapping, amplitude, options, delta) ==
  LET amplitudeScaled == amplitude * options.sensitivity
      size == ScaleBy(mapping.sizeBase, 10000 + 2 * amplitudeScaled, 10000)
      spawned == IF mapping.visualType = "particle"
                   THEN renderParticle(mapping, size, amplitudeScaled, nextEid)
                   ELSE <<>>
  IN  /\ version = "legacy"
      /\ ticks < MaxTicks
      /\ ticks' = ticks + 1
      /\ now' = now + delta
      /\ animationTime' = animationTime + 50
      /\ IF amplitudeScaled < 1000
           THEN /\ lastRender' = Call(mapping, amplitude, options, now', 0, 0)
                /\ UNCHANGED <<animatedShapes, particles, nextEid>>
           ELSE /\ Len(particles) + Len(spawned) <= MaxParticles
                /\ nextEid' = nextEid + Len(spawned)
                /\ UpdateAndRecord(animatedShapes, particles \o spawned, now', options,
                                   Call(mapping, amplitude, options, now', 0, Len(spawned)))
      /\ UNCHANGED <<version, lastFrameTime, currentOptions>>

RenderLegacy ==
  \E mapping \in RenderMappings, amplitude \in Amplitudes, options \in OptionsWithoutFade,
     delta \in Deltas :
    renderLegacy(mapping, amplitude, options, delta)

\* the history of a clear() call: how many entities were live when it was called
Cleared == [kind |-> "clear", cleared |-> Len(animatedShapes) + Len(particles)]

clear_keepsShapes ==
  /\ particles' = <<>>
  /\ lastRender' = Cleared
  /\ UNCHANGED <<version, now, lastFrameTime, animationTime, currentOptions, animatedShapes,
                 nextEid, ticks>>

\* clear(): the canvas is wiped and the live lists are emptied
clear ==
  /\ animatedShapes' = <<>>
  /\ particles' = <<>>
  /\ lastRender' = Cleared
  /\ UNCHANGED <<version, now, lastFrameTime, animationTime, currentOptions, nextEid, ticks>>

\* clear() called on a renderer that holds something
Clear == Len(animatedShapes) + Len(particles) > 0 /\ clear

(***************************************************************************)
(* The spawning calls: a mapping of each family, amplitudes at and around  *)
(* the two spawn thresholds, and two sensitivities.                        *)
(***************************************************************************)
BrushFeatures == Features(100, 25, 41, 41)
OrganicFeatures == Features(0, 25, 41, 41)

FamilyMappings ==
  RenderMappings
    \cup {createMapping(BrushFeatures, 3, 0), createMapping(OrganicFeatures, 4, 0)}

SpawnAmplitudes == {4, 5, 20, 100}

SpawnOptions ==
  { [globalOpacity |-> 7, sensitivity |-> 10, fadeEnabled |-> FALSE, fadeDuration |-> 3000],
    [globalOpacity |-> 7, sensitivity |-> 5, fadeEnabled |-> FALSE, fadeDuration |-> 3000] }

MaxSpawnTicks == 2

InitSpawn == \E v \in {"fade", "ts"} : InitRenderer(v)

SpawnFade ==
  \E mapping \in FamilyMappings, amplitude \in SpawnAmplitudes, options \in SpawnOptions,
     delta \in Deltas :
    /\ ticks < MaxSpawnTicks
    /\ renderFade(mapping, amplitude, options, delta)

SpawnTs ==
  \E mapping \in FamilyMappings, amplitude \in SpawnAmplitudes, options \in SpawnOptions,
     delta \in Deltas :
    /\ ticks < MaxSpawnTicks
    /\ renderTs(mapping, amplitude, options, delta)

(***************************************************************************)
(* Calls with mappings the mapper would not produce: a visualType outside  *)
(* the four families, and a shapeType outside its family's variants.       *)
(***************************************************************************)
VariantMappings ==
  { createMapping(GeometricFeatures, 1, 0),
    [createMapping(GeometricFeatures, 1, 0) EXCEPT !.visualType = "hologram"],
    [createMapping(GeometricFeatures, 1, 0) EXCEPT !.shapeType = "pentagon"],
    [createMapping(BrushFeatures, 3, 0) EXCEPT !.shapeType = "airbrush"],
    [createMapping(OrganicFeatures, 4, 0) EXCEPT !.shapeType = "coral"] }

VariantAmplitudes == {0, 100}

VariantOptions ==
  { [globalOpacity |-> 7, sensitivity |-> 10, fadeEnabled |-> fe, fadeDuration |-> 1000] :
      fe \in BOOLEAN }

MaxVariantTicks == 3

RenderVariant ==
  \E mapping \in VariantMappings, amplitude \in VariantAmplitudes,
     options \in VariantOptions, delta \in Deltas :
    /\ ticks < MaxVariantTicks
    /\ renderFade(mapping, amplitude, options, delta)

(***************************************************************************)
(* The fade-aware renderer with fadeEnabled = false beside the renderer    *)
(* without fade options: twin is the second renderer, fed every call the   *)
(* first one gets, with the same clock readings and the same draws.        *)
(***************************************************************************)
VARIABLES
  twin   \* the renderer without fade options: [animatedShapes, particles, nextEid]

twinVars == <<twin>>

InitTwin == twin = [animatedShapes |-> <<>>, particles |-> <<>>, nextEid |-> 1]

\* render(mapping, audioFeatures, options) of the version without fade options, as a
\* function of that renderer's lists: what renderTs leaves in them
renderTsOf(r, mapping, amplitude, options, t, draws) ==
  LET amplitudeScaled == amplitude * options.sensitivity * 2
      size == ScaleBy(mapping.sizeBase, 10000 + 3 * amplitudeScaled, 10000)
      opacity == ClampOpacity(ScaleBy(mapping.opacityBase * options.globalOpacity,
                                      6000 + 3 * amplitudeScaled, 20000))
      spawns == ~SpawnThresholdTs(amplitudeScaled)
      newParticles ==
        IF spawns /\ mapping.visualType = "particle"
          THEN createAnimatedParticles(mapping, size, amplitudeScaled, t, r.nextEid,
                                       Burst(particleCount(amplitudeScaled), draws.short))
          ELSE <<>>
      newShapes ==
        IF spawns /\ mapping.visualType \in {"geometric", "brush", "organic"}
          THEN <<createAnimatedShape(mapping.visualType, mapping, size, opacity, r.nextEid,
                                     t + draws.skew, draws.duration, 8)>>
          ELSE <<>>
      shapes == r.animatedShapes \o newShapes
      ps == r.particles \o newParticles
  IN  [animatedShapes |-> Kept([i \in 1..Len(shapes) |->
                                  Drawn(updateShapeTs(shapes[i], t))]),
       particles |-> Kept([i \in 1..Len(ps) |-> updateParticleTs(ps[i], t)]),
       nextEid |-> r.nextEid + Len(newShapes) + Len(newParticles)]

\* one call to both renderers
RenderBoth ==
  \E mapping \in RenderMappings, amplitude \in Amplitudes,
     options \in { o \in RenderOptions : ~o.fadeEnabled }, delta \in Deltas :
    \E draws \in DrawsOf(mapping) :
      /\ renderFadeDrawn(mapping, amplitude, options, delta, draws)
      /\ twin' = renderTsOf(twin, mapping, amplitude, options, now + delta, draws)

\* clear() on both renderers
ClearBoth ==
  /\ Len(animatedShapes) + Len(particles) + Len(twin.animatedShapes) + Len(twin.particles) > 0
  /\ clear
  /\ twin' = [twin EXCEPT !.animatedShapes = <<>>, !.particles = <<>>]

(***************************************************************************)
(* AudioProcessor: what it computes from the analyser's two byte buffers.  *)
(* Both buffers have analyser.frequencyBinCount bytes (BinCount here).     *)
(* The amplitude is in units of 1/1000, rounded down; the dominant         *)
(* frequency and the band energies are fractions.                          *)
(***************************************************************************)
BinCount == 10

Bytes == 0..255

RECURSIVE SumOver(_, _, _)
\* the sum of data[i] for the 0-based indices from <= i < to
SumOver(data, from, to) ==
  IF from >= to THEN 0 ELSE data[from + 1] + SumOver(data, from + 1, to)

RECURSIVE SumSquares(_, _)
\* the sum of (data[i] - 128)^2 over the first n bytes: 128^2 times the loop's sum
SumSquares(data, n) ==
  IF n = 0 THEN 0 ELSE (data[n] - 128) * (data[n] - 128) + SumSquares(data, n - 1)

RECURSIVE IsqrtIn(_, _, _)
\* the largest r in lo..hi with r * r <= x
IsqrtIn(x, lo, hi) ==
  IF lo = hi THEN lo
  ELSE LET mid == (lo + hi + 1) \div 2
       IN  IF mid * mid <= x THEN IsqrtIn(x, mid, hi) ELSE IsqrtIn(x, lo, mid - 1)

\* Math.floor(Math.sqrt(x)) for a whole x up to 16000000
Isqrt(x) == IsqrtIn(x, 0, 4000)

\* Math.floor(1000000 * s / (128 * 128 * n)), which is 15625 * s / (256 * n), in
\* steps that stay within 32 bits
MillionthsOf(s, n) ==
  (s \div (256 * n)) * 15625 + ((s % (256 * n)) * 15625) \div (256 * n)

calculateAmplitude(data) == Isqrt(MillionthsOf(SumSquares(data, Len(data)), Len(data)))

RECURSIVE MaxIndex(_, _, _, _)
\* the loop of getDominantFrequency from the 0-based index i on
MaxIndex(bins, i, maxValue, maxIndex) ==
  IF i >= Len(bins) THEN maxIndex
  ELSE IF bins[i + 1] > maxValue THEN MaxIndex(bins, i + 1, bins[i + 1], i)
  ELSE MaxIndex(bins, i + 1, maxValue, maxIndex)

getDominantFrequency(bins, sampleRate) ==
  [num |-> MaxIndex(bins, 0, 0, 0) * (sampleRate \div 2), den |-> Len(bins)]

lowEndOf(bins) == (Len(bins) * 1) \div 10

midEndOf(bins) == (Len(bins) * 4) \div 10

getFrequencyBands_sumsOnly(bins) ==
  [low  |-> [num |-> SumOver(bins, 0, lowEndOf(bins)), den |-> 1],
   mid  |-> [num |-> SumOver(bins, lowEndOf(bins), midEndOf(bins)), den |-> 1],
   high |-> [num |-> SumOver(bins, midEndOf(bins), Len(bins)), den |-> 1]]

getFrequencyBands(bins) ==
  [low  |-> [num |-> SumOver(bins, 0, lowEndOf(bins)), den |-> lowEndOf(bins)],
   mid  |-> [num |-> SumOver(bins, lowEndOf(bins), midEndOf(bins)),
             den |-> midEndOf(bins) - lowEndOf(bins)],
   high |-> [num |-> SumOver(bins, midEndOf(bins), Len(bins)),
             den |-> Len(bins) - midEndOf(bins)]]

\* the features getAudioFeatures builds from the frequency buffer
featuresOf(bins, sampleRate) ==
  LET frequency == getDominantFrequency(bins, sampleRate)
      bands == getFrequencyBands(bins)
  IN  [frequency |-> frequency, lowFreq |-> bands.low, midFreq |-> bands.mid,
       highFreq |-> bands.high,
       signature |-> generateSignature(frequency, bands.low, bands.mid, bands.high)]

SampleRates == {44100, 48000}

\* a time-domain buffer that alternates between two levels
Alternating(a, b) == [i \in 1..BinCount |-> IF i % 2 = 1 THEN a ELSE b]

\* a frequency buffer with one level per band and, when peak > 0, a full bin at peak
Banded(l, m, h, peak) ==
  [i \in 1..BinCount |->
     IF i = peak THEN 255
     ELSE IF i <= (BinCount \div 10) THEN l
     ELSE IF i <= ((BinCount * 4) \div 10) THEN m
     ELSE h]

Zeros == [i \in 1..BinCount |-> 0]

(***************************************************************************)
(* The processor's computations on their own: calculateAmplitude,          *)
(* getFrequencyBands and generateSignature applied to inputs drawn from    *)
(* bounded sets.                                                           *)
(***************************************************************************)
VARIABLES
  analysed   \* history: the last computation, its input and its result

analysisVars == <<analysed>>

TimeBuffers == { Alternating(a, b) : a, b \in {0, 115, 116, 128, 255} }

Spectra ==
  { Banded(l, m, h, peak) : l \in {0, 19, 255}, m \in {0, 20, 255}, h \in {0, 255},
                            peak \in {0, 1, BinCount} }

\* arguments of generateSignature: whole and fractional values on both sides of a
\* bucket's edge
SignatureInputs ==
  [freq : {Whole(0), [num |-> 499, den |-> 10], Whole(50), Whole(21600)},
   low  : {Whole(0), [num |-> 39, den |-> 2], Whole(20)},
   mid  : {[num |-> 119, den |-> 3], Whole(40)},
   high : {[num |-> 239, den |-> 6], Whole(255)}]

InitAnalysis == analysed = [kind |-> "none"]

analyseTimeDomain ==
  \E data \in TimeBuffers :
    analysed' = [kind |-> "amplitude", data |-> data, amplitude |-> calculateAmplitude(data)]

analyseFrequency ==
  \E bins \in Spectra :
    analysed' = [kind |-> "bands", bins |-> bins, bands |-> getFrequencyBands(bins)]

\* generateSignature on the next input, kept beside the input before it
signPair ==
  \E b \in SignatureInputs :
    LET a == IF analysed.kind = "signatures" THEN analysed.b ELSE b
    IN  analysed' = [kind |-> "signatures", a |-> a, b |-> b,
                     sigA |-> generateSignature(a.freq, a.low, a.mid, a.high),
                     sigB |-> generateSignature(b.freq, b.low, b.mid, b.high)]

(***************************************************************************)
(* The mapper's generator on its own: an input is a signature string, for  *)
(* hashSignature and the draws of the generator built from its seed, or    *)
(* the features of a sound, for createMapping.                             *)
(***************************************************************************)
MaxDraws == 9

MappingInputs ==
  { Features(250 * k, b[1], b[2], b[3]) : k \in 0..8, b \in {0, 45, 200} \X {0, 45, 200} \X {0, 45, 200} }

SignatureStrings ==
  { f.signature : f \in MappingInputs } \cup {<<>>, <<48>>, <<45, 45, 45>>}

InitInputs ==
  \/ \E f \in MappingInputs : analysed = [kind |-> "features", features |-> f]
  \/ \E sig \in SignatureStrings : analysed = [kind |-> "string", signature |-> sig]

\* createMapping(audioFeatures), with the three indices it draws
mapInput ==
  /\ analysed.kind = "features"
  /\ LET f == analysed.features
         seed == hashSignature(f.signature)
         mapping == createMapping(f, 1, 0)
         shapes == IF mapping.visualType \in DOMAIN SHAPE_TYPES
                     THEN SHAPE_TYPES[mapping.visualType] ELSE <<>>
     IN  analysed' =
           [kind |-> "mapping", features |-> f, mapping |-> mapping,
            visualIndex |-> DrawIndex(createSeededRandom(seed, 1), Len(VISUAL_TYPES)),
            shapeCount |-> Len(shapes),
            shapeIndex |-> DrawIndex(createSeededRandom(seed, 2), Len(shapes)),
            styleIndex |-> DrawIndex(createSeededRandom(seed, 3), Len(ANIMATION_STYLES))]

\* hashSignature(signature) and the first draws of createSeededRandom(seed)
seedInput ==
  /\ analysed.kind = "string"
  /\ LET seed == hashSignature(analysed.signature)
     IN  analysed' =
           [kind |-> "seed", signature |-> analysed.signature, seed |-> seed,
            values |-> [k \in 1..MaxDraws |-> createSeededRandom(seed, k)]]

(***************************************************************************)
(* AudioProcessor.  initialize() is asynchronous: the call suspends at     *)
(* getUserMedia and the rest of its body runs when the stream arrives, in  *)
(* a later task.  A MediaStream stays live until its tracks are stopped;   *)
(* disconnecting the source node or closing the AudioContext does not stop *)
(* them.  analyser stands for analyser, dataArray and frequencyBins, which *)
(* one synchronous block sets together.  Levels are in units of 1/1000.    *)
(***************************************************************************)
VARIABLES
  audioContext,   \* AudioProcessor.audioContext: "null", "running" or "closed"
  analyser,       \* AudioProcessor.analyser is set
  microphone,     \* AudioProcessor.microphone: "null", "connected" or "disconnected"
  dataArray,      \* AudioProcessor.dataArray: <<>> for null, else the time-domain bytes
  frequencyBins,  \* AudioProcessor.frequencyBins: <<>> for null, else the frequency bytes
  isActive,       \* AudioProcessor.isActive
  pendingInit,    \* initialize() calls suspended at getUserMedia
  liveStreams,    \* MediaStreams handed to this processor whose tracks are live
  initErrors,     \* history: initialize() calls that threw
  stopped,        \* history: stop() has returned
  closeRejected,  \* history: a close() call returned a rejected promise
  reads,          \* history: getAudioFeatures calls so far
  lastFeatures    \* history: the last getAudioFeatures call and its result

audioVars == <<audioContext, analyser, microphone, dataArray, frequencyBins, isActive,
               pendingInit, liveStreams, initErrors, stopped, closeRejected, reads,
               lastFeatures>>

MaxInits == 2
MaxReads == 3

MicLevels == {50, 100, 400}

\* what the analyser writes into the two buffers at a read
MicBuffers == { Alternating(a, b) : a \in {0, 115, 116}, b \in {115, 128} }

MicSpectra == { Banded(l, 41, 41, peak) : l \in {19, 45}, peak \in {0, 2} }

NoRead == [kind |-> "none"]

InitAudio ==
  /\ audioContext = "null"
  /\ analyser = FALSE
  /\ microphone = "null"
  /\ dataArray = <<>>
  /\ frequencyBins = <<>>
  /\ isActive = FALSE
  /\ pendingInit = 0
  /\ liveStreams = 0
  /\ initErrors = 0
  /\ stopped = FALSE
  /\ closeRejected = FALSE
  /\ reads = 0
  /\ lastFeatures = NoRead

\* initialize() up to its await; the callers construct a processor per recording, so
\* no initialize() is called on a processor that was stopped
initialize ==
  /\ ~stopped
  /\ pendingInit + liveStreams + initErrors < MaxInits
  /\ pendingInit' = pendingInit + 1
  /\ UNCHANGED <<audioContext, analyser, microphone, dataArray, frequencyBins, isActive,
                 liveStreams, initErrors, stopped, closeRejected, reads, lastFeatures>>

\* getUserMedia resolves and initialize() runs to its end
initializeResumed ==
  /\ pendingInit > 0
  /\ pendingInit' = pendingInit - 1
  /\ liveStreams' = liveStreams + 1
  /\ audioContext' = "running"
  /\ analyser' = TRUE
  /\ microphone' = "connected"
  /\ dataArray' = Zeros
  /\ frequencyBins' = Zeros
  /\ isActive' = TRUE
  /\ UNCHANGED <<initErrors, stopped, closeRejected, reads, lastFeatures>>

\* getUserMedia rejects: initialize() throws and sets nothing
initializeRejected ==
  /\ pendingInit > 0
  /\ pendingInit' = pendingInit - 1
  /\ initErrors' = initErrors + 1
  /\ UNCHANGED <<audioContext, analyser, microphone, dataArray, frequencyBins, isActive,
                 liveStreams, stopped, closeRejected, reads, lastFeatures>>

\* what getAudioFeatures() returns when calculateAmplitude gives amplitude and the
\* frequency buffer gives the features f
audioFeaturesOf_thresholdDoubled(amplitude, f) ==
  IF ~analyser \/ dataArray = <<>> \/ frequencyBins = <<>> \/ ~isActive THEN [kind |-> "null"]
  ELSE IF amplitude < 200 THEN [kind |-> "null"]
  ELSE [kind |-> "features", amplitude |-> amplitude, features |-> f]

audioFeaturesOf(amplitude, f) ==
  IF ~analyser \/ dataArray = <<>> \/ frequencyBins = <<>> \/ ~isActive THEN [kind |-> "null"]
  ELSE IF amplitude < 100 THEN [kind |-> "null"]
  ELSE [kind |-> "features", amplitude |-> amplitude, features |-> f]

\* getAudioFeatures(): after the first return the analyser fills the two buffers
getAudioFeatures ==
  /\ reads < MaxReads
  /\ reads' = reads + 1
  /\ IF ~analyser \/ dataArray = <<>> \/ frequencyBins = <<>> \/ ~isActive
       THEN /\ lastFeatures' = [kind |-> "read", afterStop |-> stopped, ready |-> FALSE,
                                sampleRate |-> 0,
                                result |-> audioFeaturesOf(0, GeometricFeatures)]
            /\ UNCHANGED <<dataArray, frequencyBins>>
       ELSE \E data \in MicBuffers, bins \in MicSpectra, sampleRate \in SampleRates :
              /\ dataArray' = data
              /\ frequencyBins' = bins
              /\ lastFeatures' = [kind |-> "read", afterStop |-> stopped, ready |-> TRUE,
                                  sampleRate |-> sampleRate,
                                  result |-> audioFeaturesOf(calculateAmplitude(data),
                                                             featuresOf(bins, sampleRate))]
  /\ UNCHANGED <<audioContext, analyser, microphone, isActive, pendingInit, liveStreams,
                 initErrors, stopped, closeRejected>>

\* stop(): no statement of it stops the tracks of the stream or cancels a suspended
\* initialize(); close() on a context that is closed returns a rejected promise, which
\* stop() neither awaits nor catches
stop ==
  /\ microphone' = (IF microphone # "null" THEN "disconnected" ELSE microphone)
  /\ audioContext' = (IF audioContext # "null" THEN "closed" ELSE audioContext)
  /\ closeRejected' = (closeRejected \/ audioContext = "closed")
  /\ isActive' = FALSE
  /\ stopped' = TRUE
  /\ UNCHANGED <<analyser, dataArray, frequencyBins, pendingInit, liveStreams, initErrors,
                 reads, lastFeatures>>

(***************************************************************************)
(* App: the recording controls and the frame loop.  startRecording,        *)
(* stopRecording and animate are closures of one render of the component:  *)
(* a handler the user triggers is the one of the latest render and reads   *)
(* the current state, while the animate that startRecording calls after    *)
(* its await, and that requestAnimationFrame re-registers, is the one of   *)
(* the render in which the recording was started and reads the state of    *)
(* that render.  The processor behind audioProcessorRef is the one of the  *)
(* previous section; here only its presence and what getAudioFeatures      *)
(* returns to animate matter.                                              *)
(***************************************************************************)
VARIABLES
  fadeEnabled,       \* state fadeEnabled
  fadeDuration,      \* state fadeDuration, in ms
  sensitivity,       \* state sensitivity, in tenths
  opacity,           \* state opacity, in tenths
  isRecording,       \* state isRecording
  isRecordingRef,    \* isRecordingRef.current
  audioProcessorRef, \* audioProcessorRef.current: "null" or "processor"
  animationFrameRef, \* animationFrameRef.current: 0 for null, or a frame id
  scheduled,         \* the callbacks requestAnimationFrame holds: [id, closure]
  starting,          \* the startRecording calls suspended at initialize(): [closure, latest]
  error,             \* state error: "null" or the message of startRecording's catch
  nextFrameId,       \* the id the next requestAnimationFrame returns
  frames,            \* history: animate calls so far
  clicks,            \* history: handlers the user triggered so far
  fadingOut,         \* history: recording was stopped with fade on and live entities
  orphans            \* history: processors that are active and that no ref points to

appVars == <<fadeEnabled, fadeDuration, sensitivity, opacity, isRecording, isRecordingRef, audioProcessorRef,
             animationFrameRef, scheduled, starting, error, nextFrameId, frames, clicks,
             fadingOut, orphans>>

MaxFrames == 3
MaxClicks == 3
MaxStarts == 2
Horizon == 4500

AppSensitivities == {10, 5}
AppOpacities == {7, 3}

InitApp ==
  /\ fadeEnabled = FALSE
  /\ fadeDuration = 3000
  /\ sensitivity = 10
  /\ opacity = 7
  /\ isRecording = FALSE
  /\ isRecordingRef = FALSE
  /\ audioProcessorRef = "null"
  /\ animationFrameRef = 0
  /\ scheduled = {}
  /\ starting = {}
  /\ error = "null"
  /\ nextFrameId = 1
  /\ frames = 0
  /\ clicks = 0
  /\ fadingOut = FALSE
  /\ orphans = 0

\* VisualRenderer.hasActiveElements(), which App calls: some entity is live
hasActiveElements == Len(animatedShapes) + Len(particles) > 0

\* what a closure of the current render captures
Closure ==
  [fadeEnabled |-> fadeEnabled, fadeDuration |-> fadeDuration, sensitivity |-> sensitivity,
   opacity |-> opacity]

OptionsOf(c) ==
  [globalOpacity |-> c.opacity, sensitivity |-> c.sensitivity, fadeEnabled |-> c.fadeEnabled,
   fadeDuration |-> c.fadeDuration]

dummyMapping ==
  [id |-> "", soundPattern |-> "", visualType |-> "geometric", colorPrimary |-> "#000000",
   colorSecondary |-> "#000000", movement |-> "float", sizeBase |-> 0, shapeType |-> "circle"]

\* a frame in which animate calls no render
NoRenderCall(delta) ==
  /\ now' = now + delta
  /\ UNCHANGED <<version, lastFrameTime, animationTime, currentOptions, animatedShapes,
                 particles, nextEid, ticks, lastRender>>
  /\ UNCHANGED mapperVars

\* audioProcessorRef.current = new AudioProcessor() and its initialize() up to the
\* await; from here the processor of the previous section is this new one
newAudioProcessor ==
  /\ audioContext' = "null"
  /\ analyser' = FALSE
  /\ microphone' = "null"
  /\ dataArray' = <<>>
  /\ frequencyBins' = <<>>
  /\ isActive' = FALSE
  /\ pendingInit' = 1
  /\ liveStreams' = 0
  /\ initErrors' = 0
  /\ stopped' = FALSE
  /\ UNCHANGED <<closeRejected, reads, lastFeatures>>

\* animate() of the closure c, with isRecordingRef.current = recording, while
\* requestAnimationFrame holds the callbacks others; canRead: the processor behind
\* audioProcessorRef has its analyser and is active
animate(c, recording, others, canRead) ==
  LET hasAudio == audioProcessorRef # "null" /\ recording
      active == hasActiveElements
  IN  /\ frames < MaxFrames
      /\ frames' = frames + 1
      /\ \E delta \in Deltas :
           IF hasAudio
             THEN \/ NoRenderCall(delta)
                  \/ \E f \in {GeometricFeatures} :
                       /\ canRead
                       /\ getOrCreateMapping(f)
                       /\ renderFade(lastCall'.result, 100, OptionsOf(c), delta)
           ELSE IF c.fadeEnabled /\ active
             THEN /\ renderFade(dummyMapping, 0, OptionsOf(c), delta)
                  /\ UNCHANGED mapperVars
           ELSE NoRenderCall(delta)
      /\ IF recording \/ (c.fadeEnabled /\ active)
           THEN /\ animationFrameRef' = nextFrameId
                /\ nextFrameId' = nextFrameId + 1
                /\ scheduled' = others \cup {[id |-> nextFrameId, closure |-> c]}
           ELSE /\ scheduled' = others
                /\ UNCHANGED <<animationFrameRef, nextFrameId>>

\* startRecording() up to its await
startRecording ==
  /\ ~isRecording
  /\ clicks < MaxClicks
  /\ clicks' = clicks + 1
  /\ Cardinality(starting) < MaxStarts
  /\ error' = "null"
  /\ audioProcessorRef' = "processor"
  /\ orphans' = orphans + (IF isActive THEN 1 ELSE 0)
  /\ UNCHANGED <<sensitivity, opacity>>
  /\ newAudioProcessor
  /\ starting' = { [closure |-> s.closure, latest |-> FALSE] : s \in starting }
                    \cup {[closure |-> Closure, latest |-> TRUE]}
  /\ fadingOut' = FALSE
  /\ UNCHANGED <<fadeEnabled, fadeDuration, isRecording, isRecordingRef, animationFrameRef,
                 scheduled, nextFrameId, frames>>
  /\ UNCHANGED <<mapperVars, renderVars>>

\* initialize() resolved: the rest of startRecording, which calls animate()
startRecordingResumed ==
  \E s \in starting :
    /\ starting' = starting \ {s}
    /\ IF s.latest THEN initializeResumed ELSE UNCHANGED audioVars
    /\ orphans' = orphans + (IF s.latest THEN 0 ELSE 1)
    /\ UNCHANGED <<sensitivity, opacity>>
    /\ isRecordingRef' = TRUE
    /\ isRecording' = TRUE
    /\ animate(s.closure, TRUE, scheduled, analyser' /\ isActive')
    /\ UNCHANGED <<fadeEnabled, fadeDuration, audioProcessorRef, error, clicks, fadingOut>>

\* initialize() threw: the catch block
startRecordingFailed ==
  \E s \in starting :
    /\ starting' = starting \ {s}
    /\ IF s.latest THEN initializeRejected ELSE UNCHANGED audioVars
    /\ error' = "microphone"
    /\ UNCHANGED <<orphans, sensitivity, opacity>>
    /\ UNCHANGED <<fadeEnabled, fadeDuration, isRecording, isRecordingRef, audioProcessorRef,
                   animationFrameRef, scheduled, nextFrameId, frames, clicks, fadingOut>>
    /\ UNCHANGED <<mapperVars, renderVars>>

\* the body of stopRecording()
stopRecordingBody ==
  /\ isRecordingRef' = FALSE
  /\ isRecording' = FALSE
  /\ IF audioProcessorRef # "null" THEN stop ELSE UNCHANGED audioVars
  /\ audioProcessorRef' = "null"
  /\ IF ~fadeEnabled \/ ~hasActiveElements
       THEN /\ scheduled' = { fr \in scheduled : fr.id # animationFrameRef }
            /\ animationFrameRef' = 0
       ELSE UNCHANGED <<scheduled, animationFrameRef>>

\* toggleRecording() while recording
stopRecording ==
  /\ isRecording
  /\ clicks < MaxClicks
  /\ clicks' = clicks + 1
  /\ stopRecordingBody
  /\ fadingOut' = (fadeEnabled /\ hasActiveElements)
  /\ UNCHANGED <<orphans, sensitivity, opacity>>
  /\ UNCHANGED <<fadeEnabled, fadeDuration, starting, error, nextFrameId, frames>>
  /\ UNCHANGED <<mapperVars, renderVars>>

\* confirmFadeToggle() with pendingFadeState the other value
confirmFadeToggle ==
  /\ clicks < MaxClicks
  /\ clicks' = clicks + 1
  /\ IF isRecording
       THEN stopRecordingBody
       ELSE UNCHANGED <<isRecordingRef, isRecording, audioProcessorRef, scheduled,
                        animationFrameRef, audioVars>>
  /\ clear
  /\ fadeEnabled' = ~fadeEnabled
  /\ fadingOut' = FALSE
  /\ UNCHANGED <<orphans, sensitivity, opacity>>
  /\ UNCHANGED <<fadeDuration, starting, error, nextFrameId, frames>>
  /\ UNCHANGED mapperVars

\* handleClear(): the clear button
handleClear ==
  /\ clicks < MaxClicks
  /\ clicks' = clicks + 1
  /\ clear
  /\ fadingOut' = FALSE
  /\ UNCHANGED <<orphans, sensitivity, opacity>>
  /\ UNCHANGED <<fadeEnabled, fadeDuration, isRecording, isRecordingRef, audioProcessorRef,
                 animationFrameRef, scheduled, starting, error, nextFrameId, frames>>
  /\ UNCHANGED <<mapperVars, audioVars>>

\* the fade duration slider
setFadeDuration ==
  \E d \in FadeDurations :
    /\ d # fadeDuration
    /\ clicks < MaxClicks
    /\ clicks' = clicks + 1
    /\ fadeDuration' = d
    /\ UNCHANGED <<orphans, sensitivity, opacity>>
    /\ UNCHANGED <<fadeEnabled, isRecording, isRecordingRef, audioProcessorRef,
                   animationFrameRef, scheduled, starting, error, nextFrameId, frames,
                   fadingOut>>
    /\ UNCHANGED <<mapperVars, renderVars, audioVars>>

\* the sensitivity slider
setSensitivity ==
  \E value \in AppSensitivities :
    /\ value # sensitivity
    /\ clicks < MaxClicks
    /\ clicks' = clicks + 1
    /\ sensitivity' = value
    /\ UNCHANGED <<fadeEnabled, fadeDuration, opacity, isRecording, isRecordingRef,
                   audioProcessorRef, animationFrameRef, scheduled, starting, error,
                   nextFrameId, frames, fadingOut, orphans>>
    /\ UNCHANGED <<mapperVars, renderVars, audioVars>>

\* the opacity slider
setOpacity ==
  \E value \in AppOpacities :
    /\ value # opacity
    /\ clicks < MaxClicks
    /\ clicks' = clicks + 1
    /\ opacity' = value
    /\ UNCHANGED <<fadeEnabled, fadeDuration, sensitivity, isRecording, isRecordingRef,
                   audioProcessorRef, animationFrameRef, scheduled, starting, error,
                   nextFrameId, frames, fadingOut, orphans>>
    /\ UNCHANGED <<mapperVars, renderVars, audioVars>>

\* the browser runs a callback requestAnimationFrame holds
animationFrame ==
  \E fr \in scheduled :
    /\ animate(fr.closure, isRecordingRef, scheduled \ {fr}, analyser /\ isActive)
    /\ UNCHANGED <<orphans, sensitivity, opacity>>
    /\ UNCHANGED <<fadeEnabled, fadeDuration, isRecording, isRecordingRef, audioProcessorRef,
                   starting, error, clicks, fadingOut>>
    /\ UNCHANGED audioVars

\* a callback requestAnimationFrame holds runs while recording and the input is
\* silent: getAudioFeatures() returns null (amplitude < 0.1), animate calls no render
\* and registers itself again.  Such frames can go on for ever: they are left out of
\* the count frames, the callback keeps its id (the fresh id the browser gives is,
\* like this one, different from the ids of the other callbacks held), and the clock
\* readings at which every live entity is older than Horizon, the longest lifetime
\* and fade window, are not told apart
AllPastHorizon ==
  /\ \A i \in 1..Len(animatedShapes) : now - animatedShapes[i].startTime > Horizon
  /\ \A i \in 1..Len(particles) : now - particles[i].startTime > Horizon

idleFrame ==
  \E fr \in scheduled, delta \in Deltas :
    /\ audioProcessorRef # "null" /\ isRecordingRef
    /\ NoRenderCall(IF AllPastHorizon THEN 0 ELSE delta)
    /\ animationFrameRef' = fr.id
    /\ UNCHANGED <<fadeEnabled, fadeDuration, isRecording, isRecordingRef, audioProcessorRef,
                   scheduled, starting, error, nextFrameId, frames, clicks, fadingOut,
                   orphans, sensitivity, opacity>>
    /\ UNCHANGED audioVars

(***************************************************************************)
(* StorageService over a localStorage that other writers share.  The item  *)
(* under a key is absent, the empty string, text that is not JSON, JSON    *)
(* that is not an array, or the JSON of a list.  store is the item under   *)
(* the mappings key, as in the mapper's section.                           *)
(***************************************************************************)
VARIABLES
  artworks,   \* the item under ARTWORKS_KEY
  lastLoad    \* history: the last read of a key, or construction of a mapper, and its outcome

storageVars == <<artworks, lastLoad>>

StoredMappings == <<createMapping(GeometricFeatures, 1, 0)>>

StoredArtworks == <<[id |-> "artwork-1", title |-> "Untitled"]>>

ItemsOf(list) ==
  { AbsentItem,
    [kind |-> "empty", items |-> <<>>],
    [kind |-> "malformed", items |-> <<>>],
    [kind |-> "object", items |-> <<>>],
    [kind |-> "json", items |-> list] }

NoLoad == [kind |-> "none"]

InitStorage ==
  /\ artworks = AbsentItem
  /\ lastLoad = NoLoad

\* JSON.parse(data): a SyntaxError for text that is not JSON, else the parsed value
JSONparse(item) ==
  IF item.kind = "malformed" THEN [threw |-> TRUE, isArray |-> FALSE, items |-> <<>>]
  ELSE IF item.kind = "object" THEN [threw |-> FALSE, isArray |-> FALSE, items |-> <<>>]
  ELSE [threw |-> FALSE, isArray |-> TRUE, items |-> item.items]

\* data ? JSON.parse(data) : [] with data = localStorage.getItem(key)
readStored(item) ==
  IF item.kind \in {"absent", "empty"}
    THEN [threw |-> FALSE, isArray |-> TRUE, items |-> <<>>]
    ELSE JSONparse(item)

\* new VisualMapper(): loadExistingMappings calls forEach on what the read returned
newVisualMapper(item) ==
  LET r == readStored(item)
  IN  IF r.threw \/ ~r.isArray
        THEN [threw |-> TRUE, isArray |-> r.isArray, items |-> <<>>]
        ELSE r

Load(op, item, r) ==
  [kind |-> "load", op |-> op, item |-> item, threw |-> r.threw,
   empty |-> (~r.threw /\ r.isArray /\ r.items = <<>>)]

\* another writer of the origin sets or removes an item
writeItem ==
  \/ /\ \E item \in ItemsOf(StoredMappings) : store' = item
     /\ UNCHANGED <<artworks, lastLoad, mappingCache>>
  \/ /\ \E item \in ItemsOf(StoredArtworks) : artworks' = item
     /\ UNCHANGED <<store, lastLoad, mappingCache>>

readSoundMappings ==
  /\ lastLoad' = Load("getAllSoundMappings", store, readStored(store))
  /\ UNCHANGED <<store, artworks, mappingCache>>

readArtworks ==
  /\ lastLoad' = Load("getAllArtworks", artworks, readStored(artworks))
  /\ UNCHANGED <<store, artworks, mappingCache>>

\* new VisualMapper() over the store; when the constructor throws there is no new mapper
constructMapper ==
  LET r == newVisualMapper(store)
  IN  /\ lastLoad' = Load("new VisualMapper", store, r)
      /\ mappingCache' = IF r.threw THEN mappingCache ELSE CacheFromList(r.items, 1, EmptyCache)
      /\ UNCHANGED <<store, artworks>>

(***************************************************************************)
(* The callers of the one mapper: frame callbacks, each running its call   *)
(* of getOrCreateMapping to completion before the next callback starts     *)
(* (the function has no await in it).  received keeps what each got.       *)
(***************************************************************************)
VARIABLES
  received        \* history: every [caller, signature, mapping] a call returned

callerVars == <<received>>

Callers == {1, 2}

InitCallers == received = {}

callerGetOrCreate(c, f) ==
  /\ getOrCreateMapping(f)
  /\ received' = received \cup
       {[caller |-> c, signature |-> f.signature, mapping |-> lastCall'.result]}

CallerGetOrCreate == \E c \in Callers, f \in FeatureInputs : callerGetOrCreate(c, f)

vars == <<mapperVars, renderVars, audioVars, appVars, storageVars, twinVars, analysisVars,
          callerVars>>

\* a mapper, beside a renderer, a processor and an App that no step touches
InitMapperOnly ==
  InitMapper /\ InitRenderer("fade") /\ InitAudio /\ InitApp
    /\ InitStorage /\ InitTwin /\ InitAnalysis /\ InitCallers

NextMapper ==
  \/ GetOrCreate
       /\ UNCHANGED <<renderVars, audioVars, appVars, storageVars, twinVars, analysisVars,
                      callerVars>>
  \/ clearCache
       /\ UNCHANGED <<renderVars, audioVars, appVars, storageVars, twinVars, analysisVars,
                      callerVars>>
  \/ NewMapper
       /\ UNCHANGED <<renderVars, audioVars, appVars, storageVars, twinVars, analysisVars,
                      callerVars>>
  \/ AdvanceClock
       /\ UNCHANGED <<renderVars, audioVars, appVars, storageVars, twinVars, analysisVars,
                      callerVars>>

SpecMapper == InitMapperOnly /\ [][NextMapper]_vars

NextCreate ==
  \/ Generate
       /\ UNCHANGED <<renderVars, audioVars, appVars, storageVars, twinVars, analysisVars,
                      callerVars>>
  \/ AdvanceClock
       /\ UNCHANGED <<renderVars, audioVars, appVars, storageVars, twinVars, analysisVars,
                      callerVars>>

SpecCreate == InitMapperOnly /\ [][NextCreate]_vars

\* a renderer of any version
InitRenderOnly ==
  InitMapper /\ InitRender /\ InitAudio /\ InitApp
    /\ InitStorage /\ InitTwin /\ InitAnalysis /\ InitCallers

NextRender ==
  \/ RenderFade
       /\ UNCHANGED <<mapperVars, audioVars, appVars, storageVars, twinVars, analysisVars,
                      callerVars>>
  \/ RenderTs
       /\ UNCHANGED <<mapperVars, audioVars, appVars, storageVars, twinVars, analysisVars,
                      callerVars>>
  \/ RenderLegacy
       /\ UNCHANGED <<mapperVars, audioVars, appVars, storageVars, twinVars, analysisVars,
                      callerVars>>
  \/ Clear
       /\ UNCHANGED <<mapperVars, audioVars, appVars, storageVars, twinVars, analysisVars,
                      callerVars>>

SpecRender == InitRenderOnly /\ [][NextRender]_vars

NextAudio ==
  \/ initialize
       /\ UNCHANGED <<mapperVars, renderVars, appVars, storageVars, twinVars, analysisVars,
                      callerVars>>
  \/ initializeResumed
       /\ UNCHANGED <<mapperVars, renderVars, appVars, storageVars, twinVars, analysisVars,
                      callerVars>>
  \/ initializeRejected
       /\ UNCHANGED <<mapperVars, renderVars, appVars, storageVars, twinVars, analysisVars,
                      callerVars>>
  \/ getAudioFeatures
       /\ UNCHANGED <<mapperVars, renderVars, appVars, storageVars, twinVars, analysisVars,
                      callerVars>>
  \/ stop
       /\ UNCHANGED <<mapperVars, renderVars, appVars, storageVars, twinVars, analysisVars,
                      callerVars>>

SpecAudio == InitMapperOnly /\ [][NextAudio]_vars

\* the App with its mapper and its renderer
NextApp ==
  \/ startRecording /\ UNCHANGED <<storageVars, twinVars, analysisVars, callerVars>>
  \/ startRecordingResumed /\ UNCHANGED <<storageVars, twinVars, analysisVars, callerVars>>
  \/ startRecordingFailed /\ UNCHANGED <<storageVars, twinVars, analysisVars, callerVars>>
  \/ stopRecording /\ UNCHANGED <<storageVars, twinVars, analysisVars, callerVars>>
  \/ confirmFadeToggle /\ UNCHANGED <<storageVars, twinVars, analysisVars, callerVars>>
  \/ handleClear /\ UNCHANGED <<storageVars, twinVars, analysisVars, callerVars>>
  \/ setFadeDuration /\ UNCHANGED <<storageVars, twinVars, analysisVars, callerVars>>
  \/ animationFrame /\ UNCHANGED <<storageVars, twinVars, analysisVars, callerVars>>
  \/ setSensitivity /\ UNCHANGED <<storageVars, twinVars, analysisVars, callerVars>>
  \/ setOpacity /\ UNCHANGED <<storageVars, twinVars, analysisVars, callerVars>>

SpecApp == InitMapperOnly /\ [][NextApp]_vars

\* the App with a frame loop that goes on while the input is silent; the browser
\* runs every callback requestAnimationFrame holds
NextLoop ==
  \/ startRecording /\ UNCHANGED <<storageVars, twinVars, analysisVars, callerVars>>
  \/ startRecordingResumed /\ UNCHANGED <<storageVars, twinVars, analysisVars, callerVars>>
  \/ startRecordingFailed /\ UNCHANGED <<storageVars, twinVars, analysisVars, callerVars>>
  \/ stopRecording /\ UNCHANGED <<storageVars, twinVars, analysisVars, callerVars>>
  \/ confirmFadeToggle /\ UNCHANGED <<storageVars, twinVars, analysisVars, callerVars>>
  \/ handleClear /\ UNCHANGED <<storageVars, twinVars, analysisVars, callerVars>>
  \/ setFadeDuration /\ UNCHANGED <<storageVars, twinVars, analysisVars, callerVars>>
  \/ animationFrame /\ UNCHANGED <<storageVars, twinVars, analysisVars, callerVars>>
  \/ idleFrame /\ UNCHANGED <<storageVars, twinVars, analysisVars, callerVars>>

RunsFrame ==
  (animationFrame \/ idleFrame)
    /\ UNCHANGED <<storageVars, twinVars, analysisVars, callerVars>>

SpecLoop == InitMapperOnly /\ [][NextLoop]_vars /\ WF_vars(RunsFrame)

\* the mapper's other fields, which the reads and the constructor leave alone
mapperRest == <<lastCall, clock, nextUuid, firstCall, callCount, saveCount, loaded, created>>

NextStorage ==
  \/ writeItem
       /\ UNCHANGED <<mapperRest, renderVars, audioVars, appVars, twinVars, analysisVars,
                      callerVars>>
  \/ readSoundMappings
       /\ UNCHANGED <<mapperRest, renderVars, audioVars, appVars, twinVars, analysisVars,
                      callerVars>>
  \/ readArtworks
       /\ UNCHANGED <<mapperRest, renderVars, audioVars, appVars, twinVars, analysisVars,
                      callerVars>>
  \/ constructMapper
       /\ UNCHANGED <<mapperRest, renderVars, audioVars, appVars, twinVars, analysisVars,
                      callerVars>>

SpecStorage == InitMapperOnly /\ [][NextStorage]_vars

\* the two renderers in step
NextTwin ==
  \/ RenderBoth
       /\ UNCHANGED <<mapperVars, audioVars, appVars, storageVars, analysisVars, callerVars>>
  \/ ClearBoth
       /\ UNCHANGED <<mapperVars, audioVars, appVars, storageVars, analysisVars, callerVars>>

SpecTwin == InitMapperOnly /\ [][NextTwin]_vars

\* a renderer with or without fade options and the calls that spawn
InitSpawnOnly ==
  InitMapper /\ InitSpawn /\ InitAudio /\ InitApp
    /\ InitStorage /\ InitTwin /\ InitAnalysis /\ InitCallers

NextSpawn ==
  \/ SpawnFade
       /\ UNCHANGED <<mapperVars, audioVars, appVars, storageVars, twinVars, analysisVars,
                      callerVars>>
  \/ SpawnTs
       /\ UNCHANGED <<mapperVars, audioVars, appVars, storageVars, twinVars, analysisVars,
                      callerVars>>
  \/ Clear
       /\ UNCHANGED <<mapperVars, audioVars, appVars, storageVars, twinVars, analysisVars,
                      callerVars>>

SpecSpawn == InitSpawnOnly /\ [][NextSpawn]_vars

\* the computations on their own
NextAnalysis ==
  \/ analyseTimeDomain
       /\ UNCHANGED <<mapperVars, renderVars, audioVars, appVars, storageVars, twinVars,
                      callerVars>>
  \/ analyseFrequency
       /\ UNCHANGED <<mapperVars, renderVars, audioVars, appVars, storageVars, twinVars,
                      callerVars>>
  \/ signPair
       /\ UNCHANGED <<mapperVars, renderVars, audioVars, appVars, storageVars, twinVars,
                      callerVars>>

SpecAnalysis == InitMapperOnly /\ [][NextAnalysis]_vars

\* the generator on its own inputs
InitInputsOnly ==
  InitMapper /\ InitRenderer("fade") /\ InitAudio /\ InitApp
    /\ InitStorage /\ InitTwin /\ InitInputs /\ InitCallers

NextInputs ==
  \/ mapInput
       /\ UNCHANGED <<mapperVars, renderVars, audioVars, appVars, storageVars, twinVars,
                      callerVars>>
  \/ seedInput
       /\ UNCHANGED <<mapperVars, renderVars, audioVars, appVars, storageVars, twinVars,
                      callerVars>>

SpecInputs == InitInputsOnly /\ [][NextInputs]_vars

\* the fade-aware renderer and calls with unknown variants
NextVariants ==
  \/ RenderVariant
       /\ UNCHANGED <<mapperVars, audioVars, appVars, storageVars, twinVars, analysisVars,
                      callerVars>>
  \/ Clear
       /\ UNCHANGED <<mapperVars, audioVars, appVars, storageVars, twinVars, analysisVars,
                      callerVars>>

SpecVariants == InitMapperOnly /\ [][NextVariants]_vars

\* the frame callbacks calling the one mapper
NextCallers ==
  \/ CallerGetOrCreate
       /\ UNCHANGED <<renderVars, audioVars, appVars, storageVars, twinVars, analysisVars>>
  \/ AdvanceClock
       /\ UNCHANGED <<renderVars, audioVars, appVars, storageVars, twinVars, analysisVars,
                      callerVars>>

SpecCallers == InitMapperOnly /\ [][NextCallers]_vars

(***************************************************************************)
(* Claims about the mapping cache.                                         *)
(***************************************************************************)

\* C1: on one mapper, with no clearCache in between, every call of getOrCreateMapping
\* for a signature returns a mapping equal in every field (id and createdAt included)
\* to the one the first call for that signature returned, whatever raw values the
\* later call carries.
C1_LaterCallsReturnFirstMapping ==
  lastCall.kind = "call" =>
    lastCall.result = firstCall[lastCall.features.signature].result

\* a second or later call for a signature, carrying raw values other than those the
\* returned mapping was created from
C1_Witness ==
  /\ lastCall.kind = "call"
  /\ callCount[lastCall.features.signature] >= 2
  /\ LET first == firstCall[lastCall.features.signature]
     IN  /\ first.features.frequency # lastCall.features.frequency
         /\ first.features.lowFreq # lastCall.features.lowFreq
         /\ first.result.createdAt < clock

\* C2 as stated: once getOrCreateMapping has been called for a signature, with no
\* clearCache since, saveSoundMapping has been invoked exactly once for it.
C2_ExactlyOneSave ==
  \A s \in Signatures : callCount[s] >= 1 => saveCount[s] = 1

\* C2 amended: with no clearCache in between, any number of getOrCreateMapping calls
\* for a signature invokes saveSoundMapping exactly once when the signature was not
\* loaded from the store when the mapper was constructed, and not at all when it was.
C2_OneSaveUnlessLoaded ==
  \A s \in Signatures :
    /\ saveCount[s] <= 1
    /\ callCount[s] >= 1 => saveCount[s] = (IF s \in loaded THEN 0 ELSE 1)

\* two calls for one signature that was not loaded, and one write
C2_Witness ==
  \E s \in Signatures : callCount[s] >= 2 /\ s \notin loaded /\ saveCount[s] = 1

\* C3 as stated: any two mappings createMapping generates for features with the same
\* signature are identical in every field.
C3_SameSignatureSameMapping ==
  \A a, b \in created :
    a.features.signature = b.features.signature => a.mapping = b.mapping

\* C3 amended: any two mappings createMapping generates for features with the same
\* signature agree in soundSignature, frequencyRange, visualType, shapeType,
\* animationStyle, opacityBase and in the hue and saturation of both colours (id and
\* createdAt are fresh, sizeBase and the lightness follow the raw values).
C3_SameSignatureSameDraws ==
  \A a, b \in created :
    a.features.signature = b.features.signature =>
      /\ a.mapping.soundSignature = b.mapping.soundSignature
      /\ a.mapping.frequencyRange = b.mapping.frequencyRange
      /\ a.mapping.visualType = b.mapping.visualType
      /\ a.mapping.shapeType = b.mapping.shapeType
      /\ a.mapping.animationStyle = b.mapping.animationStyle
      /\ a.mapping.opacityBase = b.mapping.opacityBase
      /\ MatchHue(a.mapping.colorPrimary) = MatchHue(b.mapping.colorPrimary)
      /\ MatchSaturation(a.mapping.colorPrimary) = MatchSaturation(b.mapping.colorPrimary)
      /\ MatchHue(a.mapping.colorSecondary) = MatchHue(b.mapping.colorSecondary)
      /\ MatchSaturation(a.mapping.colorSecondary)
           = MatchSaturation(b.mapping.colorSecondary)

\* two mappings generated for one signature from different raw frequencies and a
\* different dominant band
C3_Witness ==
  \E a, b \in created :
    /\ a.features.signature = b.features.signature
    /\ a.features.frequency # b.features.frequency
    /\ a.features.lowFreq > a.features.midFreq
    /\ b.features.lowFreq < b.features.midFreq
    /\ a.mapping.sizeBase # b.mapping.sizeBase
    /\ a.mapping.colorPrimary # b.mapping.colorPrimary

(***************************************************************************)
(* Claims about the lifecycle of the live entities.  After a render call   *)
(* now is the clock value the call read and lastRender is the call.        *)
(***************************************************************************)
Elapsed(e) == now - e.startTime

FadeMode ==
  version = "fade" /\ lastRender.kind = "render" /\ lastRender.options.fadeEnabled

Fading(e) == e.drawn.kind = "drawn" /\ e.drawn.num < e.drawn.den

\* C4: in non-fade mode (fadeEnabled = false in the fade-aware version, or the version
\* without fade options), after every render call made at time now the live shape
\* list and the live particle list hold no entity with now - startTime >= duration.
C4_NoExpiredEntityRemains ==
  (/\ lastRender.kind = "render"
   /\ version \in {"fade", "ts"}
   /\ ~lastRender.options.fadeEnabled)
    => /\ \A i \in 1..Len(animatedShapes) :
            Elapsed(animatedShapes[i]) < animatedShapes[i].duration
       /\ \A i \in 1..Len(particles) : Elapsed(particles[i]) < particles[i].duration

\* the opacity an entity is drawn with, as a fraction of its base opacity, follows
\* elapsed and the fade duration fd as C5 states it
FollowsFadeCurve(e, fd) ==
  /\ e.drawn.kind = "drawn"
  /\ ~e.drawn.shimmer
  /\ Elapsed(e) <= fd + 1500
  /\ Elapsed(e) <= fd => e.drawn.num = e.drawn.den
  /\ Elapsed(e) > fd => e.drawn.num * 1500 = e.drawn.den * (fd + 1500 - Elapsed(e))
  /\ Elapsed(e) = fd + 1500 => e.drawn.num = 0

\* C5: in fade mode every live entity is drawn with its full base opacity while
\* elapsed <= fadeDuration, with an opacity that goes down linearly from the base
\* opacity to 0 as elapsed goes from fadeDuration to fadeDuration + 1500, with
\* opacity 0 at fadeDuration + 1500, and no entity past that instant is still live.
C5_FadeOpacityFollowsElapsed ==
  FadeMode =>
    /\ \A i \in 1..Len(animatedShapes) :
         FollowsFadeCurve(animatedShapes[i], lastRender.options.fadeDuration)
    /\ \A i \in 1..Len(particles) :
         FollowsFadeCurve(particles[i], lastRender.options.fadeDuration)

\* fadeDuration = 3000: a shape drawn at 4500 ms with opacity 0 and, in the same
\* frame, a particle still at its full opacity
C5_Witness ==
  /\ FadeMode
  /\ lastRender.options.fadeDuration = 3000
  /\ \E i \in 1..Len(animatedShapes) :
       /\ Elapsed(animatedShapes[i]) = 4500
       /\ animatedShapes[i].drawn.num = 0
  /\ \E i \in 1..Len(particles) :
       /\ Elapsed(particles[i]) <= 3000
       /\ particles[i].drawn.num = particles[i].drawn.den

\* the tick a step makes when it is a render call in fade mode
FadeTick == version = "fade" /\ ticks' = ticks + 1 /\ currentOptions'.fadeEnabled

StaysLive(e, live) == \E j \in 1..Len(live) : live[j].eid = e.eid

\* C6 as stated: in fade mode a live entity stays live on every tick before
\* fadeDuration + 1500 ms of its life and is no longer live after the tick on which
\* that instant is reached.
C6_GoneOnceWindowReached ==
  [][FadeTick =>
       /\ \A i \in 1..Len(animatedShapes) :
            StaysLive(animatedShapes[i], animatedShapes')
              <=> now' - animatedShapes[i].startTime < currentOptions'.fadeDuration + 1500
       /\ \A i \in 1..Len(particles) :
            StaysLive(particles[i], particles')
              <=> now' - particles[i].startTime < currentOptions'.fadeDuration + 1500]_vars

\* C6 amended: in fade mode no entity is removed because its own lifetime has
\* elapsed: a live entity stays live on every tick with elapsed <= fadeDuration + 1500
\* (on a tick at exactly that instant it is drawn with opacity 0 and kept) and is
\* removed by the first tick with elapsed > fadeDuration + 1500.
C6_GoneOncePastWindow ==
  [][FadeTick =>
       /\ \A i \in 1..Len(animatedShapes) :
            StaysLive(animatedShapes[i], animatedShapes')
              <=> now' - animatedShapes[i].startTime <= currentOptions'.fadeDuration + 1500
       /\ \A i \in 1..Len(particles) :
            StaysLive(particles[i], particles')
              <=> now' - particles[i].startTime <= currentOptions'.fadeDuration + 1500]_vars

\* a fade-mode tick that removed an entity past its fade window and kept one whose
\* own lifetime had elapsed
C6_Witness ==
  /\ FadeMode
  /\ \E r \in lastRender.removed : r.elapsed > lastRender.options.fadeDuration + 1500
  /\ \/ \E i \in 1..Len(animatedShapes) :
          Elapsed(animatedShapes[i]) > animatedShapes[i].duration
     \/ \E i \in 1..Len(particles) : Elapsed(particles[i]) > particles[i].duration

LiveStartTimes ==
  { animatedShapes[i].startTime : i \in 1..Len(animatedShapes) }
    \cup { particles[i].startTime : i \in 1..Len(particles) }

FadingStartTimes ==
  { animatedShapes[i].startTime : i \in { j \in 1..Len(animatedShapes) :
                                            Fading(animatedShapes[j]) } }
    \cup { particles[i].startTime : i \in { j \in 1..Len(particles) : Fading(particles[j]) } }

C8_QuietCallOnlyUpdates ==
  (/\ lastRender.kind = "render"
   /\ lastRender.amplitude = 5
   /\ lastRender.options.sensitivity = 10)
    => /\ lastRender.spawnedShapes = 0
       /\ lastRender.spawnedParticles = 0
       /\ lastRender.updated

(***************************************************************************)
(* Claims about stopping: the processor and the frame loop.                *)
(***************************************************************************)

\* C9: once stop() has returned, every later getAudioFeatures() call on the processor
\* returns null and no stream handed to the processor is still live, also when an
\* initialize() call was suspended at its stream acquisition when stop() ran.
C9_StoppedProcessorIsSilentAndReleased ==
  /\ (lastFeatures.kind = "read" /\ lastFeatures.afterStop)
       => lastFeatures.result.kind = "null"
  /\ (stopped /\ pendingInit = 0) => liveStreams = 0

\* C10: after recording was stopped with fadeEnabled true and live entities in the
\* renderer, the frame loop stays scheduled as long as the live set is not empty.
C10_FadeOutLoopRunsUntilEmpty ==
  (fadingOut /\ hasActiveElements) => scheduled # {}

(***************************************************************************)
(* Claims about clear(), the stored data and the failure of initialize().  *)
(***************************************************************************)

\* C11: a clear() call leaves the live shape list and the live particle list empty
\* and changes neither the in-memory cache of the mapper nor the stored mappings.
C11_ClearEmptiesOnlyTheLiveLists ==
  [][(lastRender'.kind = "clear" /\ clicks' # clicks)
       => /\ animatedShapes' = <<>>
          /\ particles' = <<>>
          /\ mappingCache' = mappingCache
          /\ store' = store]_vars

\* clear() was called on live entities while the cache and the store held a mapping
C11_Witness ==
  /\ lastRender.kind = "clear"
  /\ lastRender.cleared > 0
  /\ \E sig \in Signatures : CacheHas(mappingCache, sig)
  /\ getAllSoundMappings(store) # <<>>

\* C12: when the item under the mappings key (or the artworks key) is malformed,
\* getAllSoundMappings (getAllArtworks) returns an empty collection and does not
\* fail, and constructing a VisualMapper over the store succeeds.
C12_MalformedDataReadsAsEmpty ==
  (lastLoad.kind = "load" /\ lastLoad.item.kind \in {"malformed", "object"})
    => (~lastLoad.threw /\ lastLoad.empty)

\* C13: when the stream cannot be acquired, initialize() throws and leaves the
\* processor inactive, so that getAudioFeatures returns null for every level; the
\* catch block of startRecording sets the error and leaves isRecording false, it
\* schedules no frame and runs none, and it leaves no start pending; a start
\* becomes pending only in a step the user triggers.
C13_FailedStartSetsErrorOnly ==
  /\ [][initErrors' > initErrors
          => /\ ~isActive' /\ ~analyser' /\ audioContext' = "null" /\ liveStreams' = 0
             /\ \A a \in MicLevels : (audioFeaturesOf(a, GeometricFeatures).kind = "null")'
             /\ error' = "microphone"
             /\ ~isRecording' /\ isRecordingRef' = isRecordingRef
             /\ scheduled' = scheduled /\ animationFrameRef' = animationFrameRef
             /\ frames' = frames
             /\ pendingInit' = 0 /\ starting' \subseteq starting]_vars
  /\ [][~(starting' \subseteq starting) => clicks' = clicks + 1]_vars

\* C14: getAudioFeatures() returns null exactly when the processor has no analyser
\* or is not active, or the RMS amplitude of the time-domain buffer it has just read
\* is below 0.1; otherwise it returns features whose amplitude is that of the buffer
\* and at least 0.1, and whose frequency, band energies and signature are those of
\* the frequency buffer of the same read.
C14_NullExactlyWhenInactiveOrQuiet ==
  [][reads' = reads + 1
       => LET r == lastFeatures'.result
              ready == analyser /\ isActive
          IN  /\ (r.kind = "null")
                   <=> (~ready \/ 100 * SumSquares(dataArray', Len(dataArray'))
                                    < 128 * 128 * Len(dataArray'))
              /\ r.kind = "features"
                   => /\ r.amplitude >= 100
                      /\ r.amplitude = calculateAmplitude(dataArray')
                      /\ \E rate \in SampleRates :
                           /\ r.features.frequency = getDominantFrequency(frequencyBins', rate)
                           /\ r.features.lowFreq = getFrequencyBands(frequencyBins').low
                           /\ r.features.midFreq = getFrequencyBands(frequencyBins').mid
                           /\ r.features.highFreq = getFrequencyBands(frequencyBins').high
                           /\ r.features.signature
                                = generateSignature(r.features.frequency, r.features.lowFreq,
                                                    r.features.midFreq, r.features.highFreq)]_vars

C14_Witness ==
  /\ lastFeatures.kind = "read" /\ lastFeatures.ready
  /\ lastFeatures.result.kind = "features"
  /\ lastFeatures.result.amplitude = 101
  /\ dataArray = Alternating(115, 115)
  /\ lastFeatures.result.features.signature = featuresOf(frequencyBins, 48000).signature
  /\ reads > 1

\* C15: the fade-aware renderer with fadeEnabled = false and the renderer without
\* fade options, fed the same calls, clock readings and draws, hold the same live
\* shapes and particles after every tick, with the same size and opacity.
C15_FadeDisabledMatchesRendererWithoutFade ==
  /\ [i \in 1..Len(animatedShapes) |->
        [eid |-> animatedShapes[i].eid, size |-> animatedShapes[i].baseSize,
         opacity |-> animatedShapes[i].baseOpacity, drawn |-> animatedShapes[i].drawn]]
       = [i \in 1..Len(twin.animatedShapes) |->
            [eid |-> twin.animatedShapes[i].eid, size |-> twin.animatedShapes[i].baseSize,
             opacity |-> twin.animatedShapes[i].baseOpacity,
             drawn |-> twin.animatedShapes[i].drawn]]
  /\ [i \in 1..Len(particles) |->
        [eid |-> particles[i].eid, size |-> particles[i].size, drawn |-> particles[i].drawn]]
       = [i \in 1..Len(twin.particles) |->
            [eid |-> twin.particles[i].eid, size |-> twin.particles[i].size,
             drawn |-> twin.particles[i].drawn]]

\* the scaled amplitude a render call computes, in units of 1/10000
ScaledAmplitude(call) ==
  IF version = "fade" THEN call.amplitude * call.options.sensitivity
  ELSE call.amplitude * call.options.sensitivity * 2

ReachesSpawnThreshold(call) ==
  IF version = "fade" THEN ScaledAmplitude(call) >= 200 ELSE ScaledAmplitude(call) >= 100

\* the entities of a list that the step has added
AddedTo(list, firstEid) == SelectSeq(list, LAMBDA e : e.eid >= firstEid)

\* the step is a render call that reaches the spawn threshold with a mapping of one
\* of the families
SpawningCall(call, families) ==
  /\ call.kind = "render"
  /\ version \in {"fade", "ts"}
  /\ ReachesSpawnThreshold(call)
  /\ call.mapping.visualType \in families

\* C16: a render call whose scaled amplitude reaches the spawn threshold and whose
\* mapping is geometric, brush or organic adds exactly one shape, of that family,
\* referencing that mapping, with a lifetime in [1000, 3000) ms, and no particle; the
\* update pass of the same tick keeps it.
C16_ShapeFamiliesSpawnOneShape ==
  [][(ticks' = ticks + 1 /\ SpawningCall(lastRender', {"geometric", "brush", "organic"}))
       => LET added == AddedTo(animatedShapes', nextEid)
          IN  /\ Len(added) = 1
              /\ added[1].type = lastRender'.mapping.visualType
              /\ added[1].mapping = lastRender'.mapping
              /\ added[1].duration >= 1000 /\ added[1].duration < 3000
              /\ AddedTo(particles', nextEid) = <<>>
              /\ Len(animatedShapes') <= Len(animatedShapes) + 1]_vars

C16_Witness ==
  /\ lastRender.kind = "render"
  /\ lastRender.mapping.visualType = "organic"
  /\ ReachesSpawnThreshold(lastRender)
  /\ Len(animatedShapes) = 2
  /\ animatedShapes[2].type = "organic" /\ animatedShapes[1].type = "brush"
  /\ animatedShapes[2].startTime >= lastRender.now
  /\ particles = <<>>

\* the particles a step added alternate the mapping's colours from the primary one
\* on, and each has a lifetime in [1000, 3000) ms
RingOf(added, mapping) ==
  \A i \in 1..Len(added) :
    /\ added[i].color = (IF (i - 1) % 2 = 0 THEN mapping.colorPrimary
                         ELSE mapping.colorSecondary)
    /\ added[i].duration >= 1000 /\ added[i].duration < 3000

\* C17 as stated: a render call that reaches the spawn threshold with a particle
\* mapping adds exactly 5 + floor(amplitude * 15) particles, amplitude being that of
\* the audio features, and no shape; the colours alternate and each lifetime is in
\* [1000, 3000) ms.
C17_BurstCountFromAmplitude ==
  [][(ticks' = ticks + 1 /\ SpawningCall(lastRender', {"particle"}))
       => LET added == AddedTo(particles', nextEid)
          IN  /\ Len(added) = 5 + ((lastRender'.amplitude * 15) \div 1000)
              /\ AddedTo(animatedShapes', nextEid) = <<>>
              /\ RingOf(added, lastRender'.mapping)]_vars

\* C17, amended: the count is floor(5 + s * 15) for the scaled amplitude s of the
\* call (amplitude * sensitivity, and twice that in the version without fade options).
C17_BurstCountFromScaledAmplitude ==
  [][(ticks' = ticks + 1 /\ SpawningCall(lastRender', {"particle"}))
       => LET added == AddedTo(particles', nextEid)
          IN  /\ Len(added) = (50000 + ScaledAmplitude(lastRender') * 15) \div 10000
              /\ AddedTo(animatedShapes', nextEid) = <<>>
              /\ RingOf(added, lastRender'.mapping)]_vars

C17_Witness ==
  /\ lastRender.kind = "render"
  /\ lastRender.mapping.visualType = "particle"
  /\ lastRender.amplitude = 100 /\ lastRender.options.sensitivity = 5
  /\ version = "fade"
  /\ Len(particles) = 5 /\ animatedShapes = <<>>
  /\ particles[1].duration # particles[2].duration
  /\ particles[1].color # particles[2].color /\ particles[1].color = particles[3].color

\* the fraction x lies in [lo, hi]
Within(x, lo, hi) == lo * x.den <= x.num /\ x.num <= hi * x.den

\* C18: for every time-domain buffer of bytes the amplitude lies in [0, 1], and for
\* every frequency-domain buffer of bytes each of the three band energies lies in
\* [0, 255].
C18_AmplitudeAndBandsInRange ==
  /\ analysed.kind = "amplitude"
       => /\ \A i \in 1..Len(analysed.data) : analysed.data[i] \in Bytes
          /\ analysed.amplitude >= 0 /\ analysed.amplitude <= 1000
          /\ (analysed.amplitude = 1000
                => SumSquares(analysed.data, Len(analysed.data))
                     = 128 * 128 * Len(analysed.data))
  /\ analysed.kind = "bands"
       => /\ \A i \in 1..Len(analysed.bins) : analysed.bins[i] \in Bytes
          /\ Within(analysed.bands.low, 0, 255)
          /\ Within(analysed.bands.mid, 0, 255)
          /\ Within(analysed.bands.high, 0, 255)

C18_Witness ==
  /\ analysed.kind = "bands"
  /\ analysed.bins = Banded(255, 255, 255, 0)
  /\ analysed.bands.low.num = 255 * analysed.bands.low.den
  /\ analysed.bands.high.num = 255 * analysed.bands.high.den
  /\ calculateAmplitude(Alternating(0, 0)) = 1000

\* the four decimal numbers of a signature, read back from its characters
ParseSignature(sig) ==
  LET d1 == MatchDigits(sig, 1, 0, 0)
      d2 == MatchDigits(sig, d1.next + 1, 0, 0)
      d3 == MatchDigits(sig, d2.next + 1, 0, 0)
      d4 == MatchDigits(sig, d3.next + 1, 0, 0)
  IN  [ok |-> /\ d1.ok /\ d1.next <= Len(sig) /\ sig[d1.next] = 45
              /\ d2.ok /\ d2.next <= Len(sig) /\ sig[d2.next] = 45
              /\ d3.ok /\ d3.next <= Len(sig) /\ sig[d3.next] = 45
              /\ d4.ok /\ d4.next = Len(sig) + 1,
       values |-> <<d1.val, d2.val, d3.val, d4.val>>]

\* start = floor(x / width) * width: a multiple of width with start <= x < start + width
InBucket(x, start, width) ==
  /\ start % width = 0
  /\ start * x.den <= x.num
  /\ x.num < (start + width) * x.den

BucketsOf(input, starts) ==
  /\ InBucket(input.freq, starts[1], 50)
  /\ InBucket(input.low, starts[2], 20)
  /\ InBucket(input.mid, starts[3], 20)
  /\ InBucket(input.high, starts[4], 20)

\* C19: the signature is floor(freq/50)*50, floor(low/20)*20, floor(mid/20)*20 and
\* floor(high/20)*20 in decimal, in that order, joined by '-'; two inputs get the same
\* signature exactly when the four components of one fall into the buckets of the
\* other.
C19_SignatureIsTheFourBuckets ==
  analysed.kind = "signatures"
    => LET pa == ParseSignature(analysed.sigA)
           pb == ParseSignature(analysed.sigB)
       IN  /\ pa.ok /\ BucketsOf(analysed.a, pa.values)
           /\ pb.ok /\ BucketsOf(analysed.b, pb.values)
           /\ (analysed.sigA = analysed.sigB) <=> BucketsOf(analysed.b, pa.values)

C19_Witness ==
  /\ analysed.kind = "signatures"
  /\ analysed.a.freq = [num |-> 499, den |-> 10] /\ analysed.b.freq = Whole(0)
  /\ analysed.a.low = [num |-> 39, den |-> 2] /\ analysed.b.low = Whole(0)
  /\ analysed.a.mid = [num |-> 119, den |-> 3] /\ analysed.a.high = [num |-> 239, den |-> 6]
  /\ analysed.a # analysed.b
  /\ analysed.sigA = analysed.sigB
  /\ analysed.sigA = <<48, 45, 48, 45, 50, 48, 45, 50, 48>>

(***************************************************************************)
(* C20: after VisualMapper.clearCache() the in-memory cache holds no       *)
(* signature and the backing store returns no mappings, and the            *)
(* getOrCreateMapping call that follows it, for a signature cached before  *)
(* the clear or for a new one, creates a mapping under a fresh id, caches  *)
(* it and saves it to the store once.                                      *)
(***************************************************************************)
C20_ClearCacheEmptiesCacheAndStore ==
  /\ lastCall.kind = "cleared" =>
       /\ DOMAIN mappingCache = {}
       /\ \A s \in Signatures : ~CacheHas(mappingCache, s)
       /\ getAllSoundMappings(store) = <<>>
  /\ (lastCall.kind = "call" /\ lastCall.afterClear) =>
       LET sig == lastCall.features.signature
       IN  /\ lastCall.result = createMapping(lastCall.features, nextUuid - 1,
                                              lastCall.result.createdAt)
           /\ CacheHas(mappingCache, sig)
           /\ mappingCache[sig] = lastCall.result
           /\ getAllSoundMappings(store) = <<lastCall.result>>
           /\ saveCount[sig] = 1

C20_Witness ==
  /\ lastCall.kind = "call"
  /\ lastCall.afterClear
  /\ lastCall.seenBefore
  /\ lastCall.result.id > 1
  /\ getAllSoundMappings(store) = <<lastCall.result>>

(***************************************************************************)
(* C21: a VisualMapper constructed over a store that already holds         *)
(* mappings answers a call for a stored signature with the stored mapping, *)
(* equal in every field, and writes nothing for it; the store keeps its    *)
(* one record for the signature.                                           *)
(***************************************************************************)
RecordsFor(signature) ==
  SelectSeq(getAllSoundMappings(store), LAMBDA m : m.soundSignature = signature)

C21_StoredMappingIsReturnedUnwritten ==
  /\ \A s \in loaded : saveCount[s] = 0 /\ Len(RecordsFor(s)) = 1
  /\ (lastCall.kind = "call" /\ lastCall.features.signature \in loaded) =>
       /\ RecordsFor(lastCall.features.signature) = <<lastCall.result>>
       /\ lastCall.result.id < nextUuid
       /\ ~lastCall.afterClear

\* a later session asks with other features of the signature than the mapping was made
\* from, and still gets the stored one
C21_Witness ==
  /\ lastCall.kind = "call"
  /\ lastCall.features.signature \in loaded
  /\ RecordsFor(lastCall.features.signature) = <<lastCall.result>>
  /\ lastCall.result # createMapping(lastCall.features, lastCall.result.id,
                                     lastCall.result.createdAt)
  /\ saveCount[lastCall.features.signature] = 0

(***************************************************************************)
(* C22: in every order of getOrCreateMapping calls by several callers for  *)
(* a signature the mapper has not seen, one mapping is created for it:     *)
(* all the callers receive that mapping, and the store holds one record    *)
(* for the signature, equal to it.                                         *)
(***************************************************************************)
C22_OneMappingPerNewSignature ==
  \A r \in received :
    /\ \A q \in received : q.signature = r.signature => q.mapping = r.mapping
    /\ RecordsFor(r.signature) = <<r.mapping>>
    /\ saveCount[r.signature] = 1
    /\ CacheHas(mappingCache, r.signature)
    /\ mappingCache[r.signature] = r.mapping

\* two callers asked for one signature with different features at different times
C22_Witness ==
  \E r, q \in received :
    /\ r.caller # q.caller
    /\ r.signature = q.signature
    /\ r.mapping.createdAt < clock
    /\ q.mapping = r.mapping
    /\ lastCall.features.signature = r.signature
    /\ lastCall.result # createMapping(lastCall.features, r.mapping.id, r.mapping.createdAt)

(***************************************************************************)
(* C23: the fade-aware renderer handles unknown variants without failing.  *)
(* A render call whose mapping has a visualType outside the four families  *)
(* spawns nothing and runs its update pass; a mapping of a shape family    *)
(* spawns its shape whatever its shapeType; a live shape whose shapeType   *)
(* is not a variant of its family is drawn with an empty path, and the     *)
(* update pass keeps, advances and removes it as it does the same shape    *)
(* with a variant of the family.                                           *)
(***************************************************************************)
Families == { VISUAL_TYPES[i] : i \in 1..Len(VISUAL_TYPES) }

VariantsOf(family) == { SHAPE_TYPES[family][i] : i \in 1..Len(SHAPE_TYPES[family]) }

UnknownVariant(e) == e.mapping.shapeType \notin VariantsOf(e.type)

WithKnownVariant(e) == [e EXCEPT !.mapping.shapeType = SHAPE_TYPES[e.type][1]]

SameButForVariant(r, q) ==
  /\ r.keep = q.keep
  /\ [r.entity EXCEPT !.mapping = q.entity.mapping, !.geometry = q.entity.geometry] = q.entity

C23_UnknownVariantsAreSilent ==
  /\ lastRender.kind = "render" =>
       /\ lastRender.updated
       /\ lastRender.mapping.visualType \notin Families =>
            /\ lastRender.spawnedShapes = 0 /\ lastRender.spawnedParticles = 0
            /\ \A i \in 1..Len(animatedShapes) :
                 animatedShapes[i].mapping # lastRender.mapping
       /\ (lastRender.mapping.visualType \in {"geometric", "brush", "organic"}
             /\ ~SpawnThresholdFade(lastRender.amplitude * lastRender.options.sensitivity)) =>
            lastRender.spawnedShapes = 1
  /\ \A i \in 1..Len(animatedShapes) :
       LET e == animatedShapes[i]
       IN  /\ e.drawn.kind = "drawn"
           /\ e.geometry = <<>> <=> UnknownVariant(e)
           /\ \A delta \in Deltas, options \in VariantOptions :
                SameButForVariant(
                  Drawn(updateShapeFade(e, now + delta, options)),
                  Drawn(updateShapeFade(WithKnownVariant(e), now + delta, options)))

\* a call with an unknown family, loud enough to spawn, whose update pass removed one
\* shape and drew another, both with a shapeType their family does not have
C23_Witness ==
  /\ lastRender.kind = "render"
  /\ lastRender.mapping.visualType = "hologram"
  /\ lastRender.amplitude = 100
  /\ lastRender.removed # {}
  /\ Len(animatedShapes) = 1
  /\ UnknownVariant(animatedShapes[1])
  /\ animatedShapes[1].geometry = <<>>
  /\ animatedShapes[1].advancedAt = now

(***************************************************************************)
(* C24: stop() is idempotent.  A stop() call on a processor that the last  *)
(* stop() left as it is, or that was never initialized, changes no field   *)
(* of the processor and does not fail, and after any stop() call the       *)
(* processor is inactive and no stream handed to it is live.               *)
(***************************************************************************)
\* of the processor's own steps, stop() is the one that neither suspends or resumes an
\* initialize() nor reads features
StopReturns == pendingInit' = pendingInit /\ reads' = reads

AsStopLeftIt == stopped /\ ~isActive /\ audioContext # "running" /\ microphone # "connected"

NeverInitialized == audioContext = "null" /\ microphone = "null" /\ ~analyser

ProcessorFields == <<audioContext, analyser, microphone, dataArray, frequencyBins, isActive>>

C24_StopIsIdempotent ==
  [][StopReturns =>
       /\ ~isActive'
       /\ pendingInit = 0 => liveStreams' = 0
       /\ (AsStopLeftIt \/ NeverInitialized) =>
            /\ ProcessorFields' = ProcessorFields
            /\ closeRejected' = closeRejected]_vars

(***************************************************************************)
(* C25: every mapping createMapping produces has a visualType among the    *)
(* four families, a shapeType among the variants of that family and an     *)
(* animationStyle of the fixed list; no index it draws is outside its      *)
(* list.                                                                   *)
(***************************************************************************)
Styles == { ANIMATION_STYLES[i] : i \in 1..Len(ANIMATION_STYLES) }

C25_DrawnVariantsAreOfTheLists ==
  analysed.kind = "mapping" =>
    /\ analysed.visualIndex \in 0..(Len(VISUAL_TYPES) - 1)
    /\ analysed.shapeIndex \in 0..(analysed.shapeCount - 1)
    /\ analysed.styleIndex \in 0..(Len(ANIMATION_STYLES) - 1)
    /\ analysed.mapping.visualType \in Families
    /\ analysed.mapping.shapeType \in VariantsOf(analysed.mapping.visualType)
    /\ analysed.mapping.animationStyle \in Styles

\* the last family and the last style, the highest indices of their lists
C25_Witness ==
  /\ analysed.kind = "mapping"
  /\ analysed.mapping.visualType = "organic"
  /\ analysed.mapping.animationStyle = "drift"
  /\ analysed.visualIndex = Len(VISUAL_TYPES) - 1
  /\ analysed.styleIndex = Len(ANIMATION_STYLES) - 1
  /\ analysed.mapping.shapeType \in VariantsOf("organic")

(***************************************************************************)
(* C26: hashSignature is the absolute value of the rolling hash            *)
(* hash * 31 + charCode wrapped to 32 bits, so the seed is never negative; *)
(* each generator step is value' = (value * 9301 + 49297) mod 233280, with *)
(* value' in 0..233279, so each draw value' / 233280 is in [0, 1); the     *)
(* values depend on the seed alone.                                        *)
(***************************************************************************)
\* hash * 31 + char modulo 2^32, on the halves of the word
Times31Plus(h, char) ==
  LET lo == h[2] * 31 + char
  IN  <<(h[1] * 31 + (lo \div 65536)) % 65536, lo % 65536>>

RECURSIVE RollingHash(_, _, _)
RollingHash(s, i, h) ==
  IF i > Len(s) \/ h[1] < 0 THEN h ELSE RollingHash(s, i + 1, Times31Plus(h, s[i]))

IsNegative(h) == h[1] >= 32768

\* the absolute value of a 32-bit two's complement word, when it has one
AbsOf(h, a) ==
  IF IsNegative(h)
    THEN /\ ~IsNegative(a) \/ a = <<32768, 0>>
         /\ (a[2] + h[2]) % 65536 = 0
         /\ (a[1] + h[1] + (IF h[2] = 0 THEN 0 ELSE 1)) % 65536 = 0
    ELSE a = h

\* (value * 9301 + 49297) mod 233280, in steps that stay below 2^31
LcgStep(value) ==
  LET a == (value * 9000) % LcgModulus
      b == (value * 301) % LcgModulus
  IN  (a + b + 49297) % LcgModulus

\* seed mod 233280 for the word <<hi, lo>> = hi * 2^16 + lo
SeedMod(seed) ==
  LET hi == ((seed[1] % LcgModulus) * 4096) % LcgModulus
      shifted == (hi * 16) % LcgModulus
  IN  (shifted + seed[2]) % LcgModulus

C26_SeedIsAbsoluteHashAndDrawsAreInRange ==
  analysed.kind = "seed" =>
    /\ AbsOf(RollingHash(analysed.signature, 1, <<0, 0>>), analysed.seed)
    /\ \A k \in 1..MaxDraws :
          /\ analysed.values[k] \in 0..(LcgModulus - 1)
          /\ analysed.values[k] =
                LcgStep(IF k = 1 THEN SeedMod(analysed.seed) ELSE analysed.values[k - 1])

\* a signature of a sound whose wrapped hash is negative
C26_Witness ==
  /\ analysed.kind = "seed"
  /\ Len(analysed.signature) > 3
  /\ IsNegative(RollingHash(analysed.signature, 1, <<0, 0>>))
  /\ analysed.seed # RollingHash(analysed.signature, 1, <<0, 0>>)

(***************************************************************************)
(* C27: for every live entity at every tick the elapsed time               *)
(* now - startTime of the update pass is non-negative, so progress lies in *)
(* [0, 1] and the opacity and size passed to the draw are non-negative,    *)
(* the tick on which the entity is spawned included.                       *)
(***************************************************************************)
ProgressInUnitInterval(e) ==
  /\ Elapsed(e) >= 0
  /\ e.ease.kind \in {"easeInOutCubic", "easeOutQuad"}
       => 0 <= e.ease.num /\ e.ease.num <= e.ease.den
  /\ e.drawn.kind = "drawn" => e.drawn.num >= 0

C27_ElapsedIsNeverNegative ==
  (lastRender.kind = "render" /\ version \in {"fade", "ts"})
    => /\ \A i \in 1..Len(animatedShapes) : ProgressInUnitInterval(animatedShapes[i])
       /\ \A i \in 1..Len(particles) : ProgressInUnitInterval(particles[i])

(***************************************************************************)
(* C28: in every interleaving of the user's actions with pending stream    *)
(* acquisitions at most one AudioProcessor is active, at most one animate  *)
(* callback is scheduled, and no processor is active without a ref to it   *)
(* for a later stop().                                                     *)
(***************************************************************************)
ActiveProcessors == orphans + (IF isActive THEN 1 ELSE 0)

Unreferenced == orphans + (IF isActive /\ audioProcessorRef = "null" THEN 1 ELSE 0)

C28_OneProcessorAndOneFrame ==
  /\ ActiveProcessors <= 1
  /\ Cardinality(scheduled) <= 1
  /\ Unreferenced = 0

(***************************************************************************)
(* C29: while recording is in progress every spawned entity is eventually  *)
(* removed from the live set, once its lifetime (fade off) or its fade     *)
(* window (fade on) has elapsed, also when the input turns silent and      *)
(* getAudioFeatures returns null on every following frame.                 *)
(***************************************************************************)
IsLive(eid) ==
  \/ \E i \in 1..Len(animatedShapes) : animatedShapes[i].eid = eid
  \/ \E i \in 1..Len(particles) : particles[i].eid = eid

C29_SpawnedEntitiesAreEventuallyRemoved ==
  \A eid \in 1..MaxFrames :
    (IsLive(eid) /\ isRecordingRef) ~> (~IsLive(eid) \/ ~isRecordingRef)

(***************************************************************************)
(* C30: while the frame loop runs, the options a frame passes to render    *)
(* hold the sensitivity, opacity and fade duration the controls show at    *)
(* that frame: a change made through the controls is in the options of     *)
(* the frames that follow it, never the values of when recording started.  *)
(***************************************************************************)
FrameCallsRender == frames' = frames + 1 /\ ticks' = ticks + 1

C30_FramesPassCurrentOptions ==
  [][FrameCallsRender
       => /\ lastRender'.options.sensitivity = sensitivity
          /\ lastRender'.options.globalOpacity = opacity
          /\ lastRender'.options.fadeDuration = fadeDuration]_vars

====
